---------------------------- MODULE Spec2Model ----------------------------
(***************************************************************************)
(* Verification model of heroku-code-mcp: the execution pipeline           *)
(* (HerokuExecutor) and the write-confirmation token.                      *)
(*                                                                         *)
(* Representation.  A JavaScript string is a sequence of text fragments,   *)
(* so that string concatenation and Array.join are sequence                *)
(* concatenation.  A JSON value is a record tagged by its typeof:          *)
(*   [t |-> "undefined"], [t |-> "null"],                                  *)
(*   [t |-> "string" | "number" | "boolean", v |-> <literal text>],        *)
(*   [t |-> "array",  e |-> <<value, ...>>],                               *)
(*   [t |-> "object", e |-> <<[k |-> key, v |-> value], ...>>]             *)
(* where the entries of an object are kept in insertion order.             *)
(***************************************************************************)
EXTENDS Integers, Sequences, FiniteSets, TLC

\* The field names of the records below, in the order TLC keeps them.
RecordFields ==
  DOMAIN [accessToken |-> 0, age |-> 0, at |-> 0, attempt |-> 0,
          authenticated |-> 0, body |-> 0, cache |-> 0, cacheFile |-> 0,
          cacheKey |-> 0, cacheLoaded |-> 0, caller |-> 0, callers |-> 0,
          calls |-> 0, catalog |-> 0, catalogChanged |-> 0, changed |-> 0,
          ciphertext |-> 0, code |-> 0, conditional |-> 0,
          confirm_write_token |-> 0, contents |-> 0, createdAtMs |-> 0,
          credentials |-> 0, definitionName |-> 0, definitions |-> 0,
          description |-> 0, docsContext |-> 0, docsEtag |-> 0,
          dry_run |-> 0, e |-> 0, empty |-> 0, envelope |-> 0, error |-> 0,
          etag |-> 0, exists |-> 0, expiresAt |-> 0, expires_in |-> 0,
          fails |-> 0, fetched |-> 0, fetches |-> 0, file |-> 0,
          finishedAt |-> 0, force |-> 0, gets |-> 0, grants |-> 0,
          haystack |-> 0, headers |-> 0, history |-> 0, href |-> 0,
          index |-> 0, indexed |-> 0, inflight |-> 0, input |-> 0,
          isError |-> 0, isMutating |-> 0, is_mutating |-> 0, issued |-> 0,
          issuedAt |-> 0, joined |-> 0, json |-> 0, k |-> 0, kind |-> 0,
          lastError |-> 0, limit |-> 0, links |-> 0, loaded |-> 0,
          log |-> 0, lookupAt |-> 0, main |-> 0, maxTermFrequency |-> 0,
          message |-> 0, method |-> 0, name |-> 0, nextRun |-> 0,
          num |-> 0, ok |-> 0, op |-> 0, operation |-> 0,
          operationById |-> 0, operationId |-> 0, operation_id |-> 0,
          operations |-> 0, options |-> 0, out |-> 0, outcome |-> 0,
          owner |-> 0, path |-> 0, pathParams |-> 0, pathTemplate |-> 0,
          path_params |-> 0, pc |-> 0, placeholderIndex |-> 0,
          presentation |-> 0, presentedBefore |-> 0, query |-> 0,
          query_params |-> 0, ranked |-> 0, rawHref |-> 0, reads |-> 0,
          received |-> 0, record |-> 0, refreshInFlight |-> 0,
          refreshToken |-> 0, refresh_token |-> 0, refreshed |-> 0,
          rel |-> 0, replaced |-> 0, request |-> 0, requestSchema |-> 0,
          request_id |-> 0, required |-> 0, requiredParams |-> 0,
          required_params |-> 0, resourceFilter |-> 0, response |-> 0,
          result |-> 0, results |-> 0, rootSchema |-> 0, run |-> 0,
          runs |-> 0, schema |-> 0, score |-> 0, searchText |-> 0,
          seen |-> 0, sent |-> 0, service |-> 0, snapshot |-> 0,
          sourceRef |-> 0, started |-> 0, state |-> 0, stateStore |-> 0,
          status |-> 0, storedAt |-> 0, stringProps |-> 0, summary |-> 0,
          t |-> 0, targetSchema |-> 0, targetSchemaRef |-> 0, text |-> 0,
          ticks |-> 0, title |-> 0, token |-> 0, tokenStore |-> 0,
          tokens |-> 0, url |-> 0, usedNames |-> 0, userId |-> 0, v |-> 0,
          vend |-> 0, vended |-> 0, vends |-> 0, via |-> 0, warnings |-> 0,
          who |-> 0]

(***************************************************************************)
(* State                                                                   *)
(***************************************************************************)
VARIABLES
  allowWrites,      \* config.allowWrites
  maxRetries,       \* config.maxRetries
  readCacheTtlMs,   \* config.readCacheTtlMs
  executeMaxBodyBytes,      \* config.executeMaxBodyBytes
  executeBodyPreviewChars,  \* config.executeBodyPreviewChars
  now,              \* Date.now()
  vendable,         \* users for whom deps.getAccessToken yields a token
  readCache,        \* HerokuExecutor.readCache: key -> CachedReadEntry
  validatorCache,   \* HerokuExecutor.validatorCache: operation id -> compiled validator
  call,             \* the execute call in progress
  prev,             \* the execute call that completed last
  minted,           \* a dry run of a mutating request and the token it returned
  replayed,         \* a later call presenting that token, and its outcome
  oauth,            \* HerokuOAuthService: stateStore, the token store, calls in progress
  schemaService,    \* HerokuSchemaService, the search index and their callers
  tool,             \* the execute tool call in progress and what it returned
  catalog,          \* HerokuSchemaService's published catalog and its cache file
  searchIndex,      \* SearchIndex and the search made on it
  store             \* EncryptedTokenStore, its file and the calls on it

vars == <<allowWrites, maxRetries, readCacheTtlMs, executeMaxBodyBytes,
          executeBodyPreviewChars, now, vendable, readCache,
          validatorCache, call, prev, minted, replayed, oauth, schemaService,
          tool, catalog, searchIndex, store>>

\* The normalized catalog, the search index and the token store file, which
\* the steps of the executor, of OAuth and of the schema refresh leave alone.
components == <<catalog, searchIndex, store>>

\* The services beside the executor, which no executor step changes.
services == <<oauth, schemaService, tool>>

config == <<allowWrites, maxRetries, readCacheTtlMs, executeMaxBodyBytes,
            executeBodyPreviewChars>>

(***************************************************************************)
(* JSON values                                                             *)
(***************************************************************************)
Undefined == [t |-> "undefined"]
Null      == [t |-> "null"]
Str(s)    == [t |-> "string", v |-> s]
Num(s)    == [t |-> "number", v |-> s]
Obj(es)   == [e |-> es, t |-> "object"]
Arr(es)   == [e |-> es, t |-> "array"]
KV(k, v)  == [k |-> k, v |-> v]

EmptyObj == Obj(<< >>)

\* Rank of an object key under Array.prototype.sort's default (code unit)
\* order, for the keys that occur in the model.
SortedKeys == <<"app_identity", "name", "q", "region">>

KeyRank(k) == CHOOSE i \in 1..Len(SortedKeys) : SortedKeys[i] = k

\* Object.keys(record).sort(): the entries of an object, ordered by key.
RECURSIVE SortEntries(_)
SortEntries(es) ==
  IF es = << >> THEN << >>
  ELSE LET m == CHOOSE i \in 1..Len(es) :
                  \A j \in 1..Len(es) : KeyRank(es[i].k) <= KeyRank(es[j].k)
           rest == [j \in 1..(Len(es) - 1) |-> IF j < m THEN es[j] ELSE es[j + 1]]
       IN <<es[m]>> \o SortEntries(rest)

\* JSON.stringify of a string: the text between double quotes (the strings
\* of the model contain no character that JSON escapes).
JsonQuote(s) == <<"\"", s, "\"">>

RECURSIVE JoinComma(_)
JoinComma(parts) ==
  IF parts = << >> THEN << >>
  ELSE IF Len(parts) = 1 THEN parts[1]
  ELSE parts[1] \o <<",">> \o JoinComma(Tail(parts))

RECURSIVE stableStringify(_)
stableStringify(value) ==
  IF value.t \in {"null", "undefined"} THEN <<"null">>
  ELSE IF value.t = "string" THEN JsonQuote(value.v)
  ELSE IF value.t \in {"number", "boolean"} THEN <<value.v>>
  ELSE IF value.t = "array"
    THEN <<"[">> \o JoinComma([i \in 1..Len(value.e) |-> stableStringify(value.e[i])]) \o <<"]">>
  ELSE LET es == SortEntries(value.e)
       IN <<"{">>
          \o JoinComma([i \in 1..Len(es) |->
                          JsonQuote(es[i].k) \o <<":">> \o stableStringify(es[i].v)])
          \o <<"}">>

\* createHmac("sha256", secret).update(payload).digest("base64url"): a keyed
\* hash, modelled as collision free (distinct payloads, distinct digests).
HmacSha256(secret, payload) == <<"hmac-sha256", secret, "(">> \o payload \o <<")">>

createWriteConfirmationToken(secret, userId, operationId, pathParams, queryParams, body) ==
  HmacSha256(secret,
             userId \o <<"|">> \o operationId \o <<"|">>
               \o stableStringify(pathParams) \o <<"|">>
               \o stableStringify(queryParams) \o <<"|">>
               \o stableStringify(body))


(***************************************************************************)
(* Configuration (AppConfig) and the operation catalog                     *)
(***************************************************************************)
writeConfirmationSecret == "local-dev-secret"
herokuApiBaseUrl == <<"https://api.heroku.com">>

\* Largest MAX_RETRIES and READ_CACHE_TTL_MS explored, and the last clock
\* reading.
MaxRetriesCfg == 2
MaxTtl == 1
MaxTime == 2

None == [t |-> "none"]

\* isMutating as the catalog normalizer sets it.
IsMutatingMethod(method) == method \notin {"GET", "HEAD"}

Operation(method, pathTemplate, pathParams, requestSchema) ==
  [isMutating    |-> IsMutatingMethod(method),
   method        |-> method,
   operationId   |-> <<method, " ">> \o pathTemplate,
   pathParams    |-> pathParams,
   pathTemplate  |-> pathTemplate,
   requestSchema |-> requestSchema]

\* link.schema of "POST /apps": {type: ["object"], required: ["name"],
\* properties: {name: {type: ["string"]}}}
AppCreateSchema == [required |-> {"name"}, stringProps |-> {"name"}, t |-> "schema"]

Catalog ==
  { Operation("GET", <<"/apps">>, << >>, None),
    Operation("HEAD", <<"/apps/", "{app_identity}">>, <<"app_identity">>, None),
    Operation("POST", <<"/apps">>, << >>, AppCreateSchema),
    Operation("DELETE", <<"/apps/", "{app_identity}">>, <<"app_identity">>, None) }

OperationIds == { op.operationId : op \in Catalog }

UnknownOperationId == <<"GET", " ", "/nope">>

\* A request schema that is a reference into the root schema's definitions:
\* {"$ref": "#/definitions/<name>"}.
Ref(name) == [name |-> name, t |-> "ref"]

\* rootSchema.definitions of the catalog above.
Definitions(schema) == [n \in {"app-create"} |-> schema]
RootSchema == [definitions |-> Definitions(AppCreateSchema)]

\* HerokuSchemaService.getOperation: lookup by id in the published
\* operationById, None when absent.  The published catalog is Catalog until
\* a refresh replaces it (catalog.pc = "replaced").
getOperation(operationId) ==
  IF catalog.pc = "replaced"
    THEN IF operationId \in DOMAIN catalog.operationById
           THEN catalog.operationById[operationId]
           ELSE None
  ELSE IF operationId \in OperationIds
    THEN CHOOSE op \in Catalog : op.operationId = operationId
    ELSE None

\* HerokuSchemaService.getRootSchema: the published root schema.
getRootSchema == IF catalog.pc = "replaced" THEN catalog.rootSchema ELSE RootSchema

(***************************************************************************)
(* Helpers on JSON objects                                                 *)
(***************************************************************************)
HasKey(obj, k) == \E i \in 1..Len(obj.e) : obj.e[i].k = k
Get(obj, k) == LET i == CHOOSE j \in 1..Len(obj.e) : obj.e[j].k = k IN obj.e[i].v

\* input.path_params ?? {} ; input.body ?? null
OrElse(value, default) == IF value.t \in {"undefined", "null"} THEN default ELSE value

(***************************************************************************)
(* Validation                                                              *)
(***************************************************************************)
validatePathParams(operation, pathParams) ==
  \A i \in 1..Len(operation.pathParams) :
     /\ HasKey(pathParams, operation.pathParams[i])
     /\ Get(pathParams, operation.pathParams[i]) # Str("")

validateQueryParams(queryParams) ==
  \A i \in 1..Len(queryParams.e) :
     queryParams.e[i].v.t \in {"string", "number", "boolean"}

\* The compiled Ajv validator of a request schema.
Validates(schema, candidate) ==
  /\ candidate.t = "object"
  /\ \A r \in schema.required : HasKey(candidate, r)
  /\ \A p \in schema.stringProps : HasKey(candidate, p) => Get(candidate, p).t = "string"

\* ajv.compile({...operation.requestSchema, definitions: rootSchema.definitions}):
\* the validator closes over the schema and the definitions it was compiled
\* from.
Compile(requestSchema, definitions) ==
  [definitions |-> definitions, schema |-> requestSchema]

\* The schema a compiled validator checks candidates against, references
\* resolved in the definitions it was compiled with.
CompiledSchema(validator) ==
  IF validator.schema.t = "ref"
    THEN validator.definitions[validator.schema.name]
    ELSE validator.schema

\* getValidator: the memoized validator of the operation id when there is
\* one, otherwise a validator compiled from the operation passed in and the
\* published root schema.
getValidator(operation) ==
  IF operation.operationId \in DOMAIN validatorCache
    THEN validatorCache[operation.operationId]
    ELSE Compile(operation.requestSchema, getRootSchema.definitions)

validateBody(operation, body) ==
  \/ operation.requestSchema = None
  \/ Validates(CompiledSchema(getValidator(operation)), OrElse(body, EmptyObj))

(***************************************************************************)
(* Request rendering                                                       *)
(***************************************************************************)
Placeholder(name) == CASE name = "app_identity" -> "{app_identity}"

\* encodeURIComponent on the path parameter values of the model.
encodeURIComponent(raw) == IF raw = "my app" THEN "my%20app" ELSE raw

renderPath(operation, pathParams) ==
  [i \in 1..Len(operation.pathTemplate) |->
     IF \E j \in 1..Len(operation.pathParams) :
          /\ operation.pathTemplate[i] = Placeholder(operation.pathParams[j])
          /\ HasKey(pathParams, operation.pathParams[j])
       THEN LET j == CHOOSE jj \in 1..Len(operation.pathParams) :
                       operation.pathTemplate[i] = Placeholder(operation.pathParams[jj])
            IN encodeURIComponent(Get(pathParams, operation.pathParams[j]).v)
       ELSE operation.pathTemplate[i]]

RECURSIVE SearchString(_)
SearchString(entries) ==
  IF entries = << >> THEN << >>
  ELSE <<entries[1].k, "=", entries[1].v.v>>
       \o (IF Len(entries) = 1 THEN << >> ELSE <<"&">> \o SearchString(Tail(entries)))

\* new URL(path, base) with searchParams.set(key, String(value)) per entry,
\* then url.toString().
RenderUrl(operation, pathParams, queryParams) ==
  herokuApiBaseUrl \o renderPath(operation, pathParams)
    \o (IF queryParams.e = << >> THEN << >> ELSE <<"?">> \o SearchString(queryParams.e))

requestEnvelope(operation, pathParams, queryParams) ==
  [method       |-> operation.method,
   operation_id |-> operation.operationId,
   url          |-> RenderUrl(operation, pathParams, queryParams)]

(***************************************************************************)
(* Upstream responses and their post-processing                            *)
(***************************************************************************)
\* The defaults of EXECUTE_MAX_BODY_BYTES and EXECUTE_BODY_PREVIEW_CHARS.
EXECUTE_MAX_BODY_BYTES == 48000
EXECUTE_BODY_PREVIEW_CHARS == 6000
ReadCacheLimit == 1000

\* The characters (UTF-16 code units) of the strings that occur in response
\* headers and bodies.
Chars(s) ==
  CASE s = "" -> << >>
    [] s = "name" -> <<"n", "a", "m", "e">>
    [] s = "token" -> <<"t", "o", "k", "e", "n">>
    [] s = "Access_Token" -> <<"A", "c", "c", "e", "s", "s", "_", "T", "o", "k", "e", "n">>
    [] s = "secrets" -> <<"s", "e", "c", "r", "e", "t", "s">>
    [] s = "id" -> <<"i", "d">>
    [] s = "items" -> <<"i", "t", "e", "m", "s">>
    [] s = "d" -> <<"d">>
    [] s = "s" -> <<"s">>
    [] s = "é" -> <<"é">>
    [] s = "1" -> <<"1">>
    [] s = "true" -> <<"t", "r", "u", "e">>
    [] s = "false" -> <<"f", "a", "l", "s", "e">>
    [] s = "[REDACTED]" -> <<"[", "R", "E", "D", "A", "C", "T", "E", "D", "]">>
    [] s = "dry_run" -> <<"d", "r", "y", "_", "r", "u", "n">>
    [] s = "confirm_write_token" -> <<"c", "o", "n", "f", "i", "r", "m", "_", "w", "r", "i", "t", "e", "_", "t", "o", "k", "e", "n">>
    [] s = "truncated" -> <<"t", "r", "u", "n", "c", "a", "t", "e", "d">>
    [] s = "original_size_bytes" -> <<"o", "r", "i", "g", "i", "n", "a", "l", "_", "s", "i", "z", "e", "_", "b", "y", "t", "e", "s">>
    [] s = "preview" -> <<"p", "r", "e", "v", "i", "e", "w">>
    [] s = "preview_is_partial" -> <<"p", "r", "e", "v", "i", "e", "w", "_", "i", "s", "_", "p", "a", "r", "t", "i", "a", "l">>
    [] s = "authorization" -> <<"a", "u", "t", "h", "o", "r", "i", "z", "a", "t", "i", "o", "n">>
    [] s = "password" -> <<"p", "a", "s", "s", "w", "o", "r", "d">>
    [] s = "secret" -> <<"s", "e", "c", "r", "e", "t">>
    [] s = "cookie" -> <<"c", "o", "o", "k", "i", "e">>
    [] s = "set-cookie" -> <<"s", "e", "t", "-", "c", "o", "o", "k", "i", "e">>
    [] s = "x-api-key" -> <<"x", "-", "a", "p", "i", "-", "k", "e", "y">>
    [] s = "content-type" -> <<"c", "o", "n", "t", "e", "n", "t", "-", "t", "y", "p", "e">>
    [] s = "request-id" -> <<"r", "e", "q", "u", "e", "s", "t", "-", "i", "d">>
    [] s = "proxy-authorization" -> <<"p", "r", "o", "x", "y", "-", "a", "u", "t", "h", "o", "r", "i", "z", "a", "t", "i", "o", "n">>

\* String.prototype.toLowerCase on one character (the regular expressions
\* carry the i flag).
Lower(c) == IF c = "A" THEN "a" ELSE IF c = "T" THEN "t" ELSE c

\* RegExp.prototype.test for an alternation of literals: some alternative
\* occurs in the name, letter case aside.
TestPattern(alternatives, name) ==
  LET lowered == [i \in 1..Len(Chars(name)) |-> Lower(Chars(name)[i])]
  IN \E a \in alternatives :
       \E i \in 1..(Len(lowered) - Len(Chars(a)) + 1) :
         SubSeq(lowered, i, i + Len(Chars(a)) - 1) = Chars(a)

SENSITIVE_HEADER_PATTERN == {"authorization", "cookie", "set-cookie", "x-api-key"}
SENSITIVE_BODY_KEY_PATTERN == {"token", "authorization", "password", "secret"}

IsSensitiveHeader(name) == TestPattern(SENSITIVE_HEADER_PATTERN, name)
IsSensitiveBodyKey(key) == TestPattern(SENSITIVE_BODY_KEY_PATTERN, key)

\* redactBody as it would be if arrays were returned as they are.
RECURSIVE redactBodyNoArrays(_)
redactBodyNoArrays(value) ==
  IF value.t = "object"
    THEN Obj([i \in 1..Len(value.e) |->
                IF IsSensitiveBodyKey(value.e[i].k)
                  THEN KV(value.e[i].k, Str("[REDACTED]"))
                  ELSE KV(value.e[i].k, redactBodyNoArrays(value.e[i].v))])
  ELSE value

RECURSIVE redactBody(_)
redactBody(value) ==
  IF value.t = "array"
    THEN Arr([i \in 1..Len(value.e) |-> redactBody(value.e[i])])
  ELSE IF value.t = "object"
    THEN Obj([i \in 1..Len(value.e) |->
                IF IsSensitiveBodyKey(value.e[i].k)
                  THEN KV(value.e[i].k, Str("[REDACTED]"))
                  ELSE KV(value.e[i].k, redactBody(value.e[i].v))])
  ELSE value

\* JSON.stringify, one character per element.
RECURSIVE JsonStringify(_)
JsonStringify(value) ==
  IF value.t = "null" THEN <<"n", "u", "l", "l">>
  ELSE IF value.t = "string" THEN <<"\"">> \o Chars(value.v) \o <<"\"">>
  ELSE IF value.t \in {"number", "boolean"} THEN Chars(value.v)
  ELSE IF value.t = "array"
    THEN <<"[">> \o JoinComma([i \in 1..Len(value.e) |-> JsonStringify(value.e[i])]) \o <<"]">>
  ELSE <<"{">>
       \o JoinComma([i \in 1..Len(value.e) |->
                       <<"\"">> \o Chars(value.e[i].k) \o <<"\"">> \o <<":">>
                         \o JsonStringify(value.e[i].v)])
       \o <<"}">>

\* Buffer.byteLength(text, "utf8")
RECURSIVE ByteLength(_)
ByteLength(text) ==
  IF text = << >> THEN 0
  ELSE (IF Head(text) = "é" THEN 2 ELSE 1) + ByteLength(Tail(text))

safeSerialize(value) == IF value.t = "string" THEN Chars(value.v) ELSE JsonStringify(value)

\* truncateBodyForOutput as it would be with sizeBytes < executeMaxBodyBytes.
truncateBodyForOutputStrict(value) ==
  LET serialized == safeSerialize(value)
      sizeBytes  == ByteLength(serialized)
      preview    == SubSeq(serialized, 1,
                           IF executeBodyPreviewChars < Len(serialized)
                             THEN executeBodyPreviewChars ELSE Len(serialized))
  IN IF serialized = << >> \/ sizeBytes < executeMaxBodyBytes
       THEN [body |-> value, warnings |-> << >>]
       ELSE [body |-> Obj(<<KV("truncated", [t |-> "boolean", v |-> "true"]),
                            KV("original_size_bytes", [num |-> sizeBytes, t |-> "number"]),
                            KV("preview", [t |-> "string", text |-> preview]),
                            KV("preview_is_partial",
                               [t |-> "boolean",
                                v |-> IF Len(preview) < Len(serialized) THEN "true" ELSE "false"])>>),
             warnings |-> <<"response_body_truncated">>]

truncateBodyForOutput(value) ==
  LET serialized == safeSerialize(value)
      sizeBytes  == ByteLength(serialized)
      preview    == SubSeq(serialized, 1,
                           IF executeBodyPreviewChars < Len(serialized)
                             THEN executeBodyPreviewChars ELSE Len(serialized))
  IN IF serialized = << >> \/ sizeBytes <= executeMaxBodyBytes
       THEN [body |-> value, warnings |-> << >>]
       ELSE [body |-> Obj(<<KV("truncated", [t |-> "boolean", v |-> "true"]),
                            KV("original_size_bytes", [num |-> sizeBytes, t |-> "number"]),
                            KV("preview", [t |-> "string", text |-> preview]),
                            KV("preview_is_partial",
                               [t |-> "boolean",
                                v |-> IF Len(preview) < Len(serialized) THEN "true" ELSE "false"])>>),
             warnings |-> <<"response_body_truncated">>]

\* Status lines the upstream API may answer with.
Statuses == {200, 204, 404, 429, 500, 600}

UpstreamBody == Obj(<<KV("name", Str("d")), KV("token", Str("s"))>>)

\* A Response of fetch: status, headers and parsed JSON body.
UpstreamResponse(status) ==
  [body    |-> IF status = 204 THEN Null ELSE UpstreamBody,
   headers |-> { <<"content-type", "application/json">>,
                 <<"request-id", IF status = 200 THEN "req-a" ELSE "req-b">>,
                 <<"set-cookie", "sid">> },
   status  |-> status]

ResponseOk(response) == response.status >= 200 /\ response.status <= 299

HeaderGet(headers, name) ==
  IF \E h \in headers : h[1] = name
    THEN (CHOOSE h \in headers : h[1] = name)[2]
    ELSE "undefined"

\* Lines 236-273 of execute: the ExecuteResponse built from an OK response.
BuildResult(envelope, response) ==
  LET truncated == truncateBodyForOutput(redactBody(response.body))
  IN [body       |-> truncated.body,
      headers    |-> { h \in response.headers : ~IsSensitiveHeader(h[1]) },
      request    |-> envelope,
      request_id |-> HeaderGet(response.headers, "request-id"),
      status     |-> response.status,
      warnings   |-> truncated.warnings]

ToolError(code, status) == [code |-> code, kind |-> "error", status |-> status]
Returned(result) == [kind |-> "ok", result |-> result]
Pending == [kind |-> "pending"]

(***************************************************************************)
(* Read cache                                                              *)
(***************************************************************************)
\* Map.delete
MapDelete(map, gone) == [k \in (DOMAIN map) \ gone |-> map[k]]
\* Map.set
MapSet(map, key, value) == [k \in (DOMAIN map) \cup {key} |-> IF k = key THEN value ELSE map[k]]

\* getReadCacheKey as it would be without the user id in the key.
getReadCacheKeyShared(ttl, operation, envelope, userId) ==
  IF ttl <= 0 THEN << >>
  ELSE IF operation.isMutating \/ operation.method \notin {"GET", "HEAD"} THEN << >>
  ELSE envelope.operation_id \o <<":">> \o envelope.url

\* getReadCacheKey as it would be without the test of the operation.
getReadCacheKeyAnyMethod(ttl, operation, envelope, userId) ==
  IF ttl <= 0 THEN << >>
  ELSE userId \o <<":">> \o envelope.operation_id \o <<":">> \o envelope.url

getReadCacheKey(ttl, operation, envelope, userId) ==
  IF ttl <= 0 THEN << >>
  ELSE IF operation.isMutating \/ operation.method \notin {"GET", "HEAD"} THEN << >>
  ELSE userId \o <<":">> \o envelope.operation_id \o <<":">> \o envelope.url

cloneExecuteResponse(response) == response

\* getReadCacheEntry as it would be with expiresAt < Date.now().
getReadCacheEntryLate(cache, key, clock) ==
  IF key \notin DOMAIN cache THEN None
  ELSE IF cache[key].expiresAt < clock THEN None
  ELSE LET copy == cloneExecuteResponse(cache[key].response)
       IN [copy EXCEPT !.warnings = @ \o <<"served_from_read_cache">>]

\* getReadCacheEntry as it would be if it returned the entry as stored.
getReadCacheEntryAsStored(cache, key, clock) ==
  IF key \notin DOMAIN cache THEN None
  ELSE IF cache[key].expiresAt <= clock THEN None
  ELSE cloneExecuteResponse(cache[key].response)

\* The value getReadCacheEntry returns: a copy carrying the cache warning,
\* or None on a miss or an expired entry.
getReadCacheEntry(cache, key, clock) ==
  IF key \notin DOMAIN cache THEN None
  ELSE IF cache[key].expiresAt <= clock THEN None
  ELSE LET copy == cloneExecuteResponse(cache[key].response)
       IN [copy EXCEPT !.warnings = @ \o <<"served_from_read_cache">>]

\* The cache getReadCacheEntry leaves behind: an expired entry is deleted.
ReadCacheAfterGet(cache, key, clock) ==
  IF key \in DOMAIN cache /\ cache[key].expiresAt <= clock
    THEN MapDelete(cache, {key})
    ELSE cache

\* The sweep of pruneReadCache (lines 325-329): expired entries are deleted.
Sweep(cache, clock) ==
  MapDelete(cache, { k \in DOMAIN cache : cache[k].expiresAt <= clock })

EarliestExpiry(live) ==
  CHOOSE e \in { live[k].expiresAt : k \in DOMAIN live } :
     \A k \in DOMAIN live : e <= live[k].expiresAt

\* Lines 335-345: the overflow entries that come first when the entries are
\* sorted by expiresAt are deleted.  Among entries of equal expiresAt the
\* sort keeps insertion order, which the map of the model does not record.
RECURSIVE EvictEarliest(_, _)
EvictEarliest(live, overflow) ==
  IF overflow <= 0 THEN live
  ELSE EvictEarliest(
         MapDelete(live, { CHOOSE k \in DOMAIN live :
                             live[k].expiresAt = EarliestExpiry(live) }),
         overflow - 1)

PruneLive(live) == EvictEarliest(live, Cardinality(DOMAIN live) - ReadCacheLimit)

\* pruneReadCache without the eviction of lines 331-345.
pruneReadCacheSweepOnly(cache, clock) == Sweep(cache, clock)

pruneReadCache(cache, clock) == PruneLive(Sweep(cache, clock))

\* owner and storedAt are history fields: who recorded the entry, and when.
setReadCacheEntry(cache, key, response, clock, ttl, userId) ==
  MapSet(pruneReadCache(cache, clock), key,
         [expiresAt |-> clock + ttl, owner |-> userId,
          response |-> cloneExecuteResponse(response), storedAt |-> clock])

(***************************************************************************)
(* Requests and calls                                                      *)
(***************************************************************************)
UserIds == { <<"u1">>, <<"u2">> }

NoConfirm == << >>

IdleCall ==
  [attempt |-> 0, cacheKey |-> << >>, envelope |-> None, finishedAt |-> 0,
   history |-> << >>, input |-> None, lastError |-> "", lookupAt |-> 0, outcome |-> Pending,
   pc |-> "idle", received |-> None, sent |-> 0,
   userId |-> << >>, vended |-> FALSE]

NoPrev == [t |-> "none"]

ExecuteRequest(operation_id, path_params, query_params, body, dry_run, confirm_write_token) ==
  [body |-> body, confirm_write_token |-> confirm_write_token, dry_run |-> dry_run,
   operation_id |-> operation_id, path_params |-> path_params,
   query_params |-> query_params]

\* The confirmation token execute computes for a request (lines 146-153 and
\* 183-190).
TokenFor(input, userId) ==
  createWriteConfirmationToken(writeConfirmationSecret, userId, input.operation_id,
                               OrElse(input.path_params, EmptyObj),
                               OrElse(input.query_params, EmptyObj),
                               OrElse(input.body, Null))

(***************************************************************************)
(* execute, up to its first await (lines 110-201)                          *)
(***************************************************************************)
DryRunResult(operation, envelope, input, userId) ==
  [body       |-> IF operation.isMutating
                    THEN Obj(<<KV("dry_run", [t |-> "boolean", v |-> "true"]),
                               KV("confirm_write_token",
                                  [t |-> "string", text |-> TokenFor(input, userId)])>>)
                    ELSE Obj(<<KV("dry_run", [t |-> "boolean", v |-> "true"])>>),
   headers    |-> {},
   request    |-> envelope,
   request_id |-> "undefined",
   status     |-> 0,
   warnings   |-> IF operation.isMutating /\ ~allowWrites
                    THEN <<"Writes are disabled by ALLOW_WRITES=false">>
                    ELSE << >>]

\* Preflight as it would be without the ALLOW_WRITES check.
PreflightNoWritesCheck(input, userId) ==
  LET operation   == getOperation(input.operation_id)
      pathParams  == OrElse(input.path_params, EmptyObj)
      queryParams == OrElse(input.query_params, EmptyObj)
  IN IF operation = None THEN ToolError("OPERATION_NOT_FOUND", 404)
     ELSE IF ~validatePathParams(operation, pathParams) THEN ToolError("VALIDATION_ERROR", 400)
     ELSE IF ~validateQueryParams(queryParams) THEN ToolError("VALIDATION_ERROR", 400)
     ELSE IF ~validateBody(operation, input.body) THEN ToolError("VALIDATION_ERROR", 400)
     ELSE IF input.dry_run
       THEN Returned(DryRunResult(operation,
                                  requestEnvelope(operation, pathParams, queryParams),
                                  input, userId))
     ELSE IF operation.isMutating /\ input.confirm_write_token # TokenFor(input, userId)
       THEN ToolError("WRITE_CONFIRMATION_REQUIRED", 403)
     ELSE Pending

\* Preflight as it would be with the write gate ahead of the dry-run branch.
PreflightGateBeforeDryRun(input, userId) ==
  LET operation   == getOperation(input.operation_id)
      pathParams  == OrElse(input.path_params, EmptyObj)
      queryParams == OrElse(input.query_params, EmptyObj)
  IN IF operation = None THEN ToolError("OPERATION_NOT_FOUND", 404)
     ELSE IF ~validatePathParams(operation, pathParams) THEN ToolError("VALIDATION_ERROR", 400)
     ELSE IF ~validateQueryParams(queryParams) THEN ToolError("VALIDATION_ERROR", 400)
     ELSE IF ~validateBody(operation, input.body) THEN ToolError("VALIDATION_ERROR", 400)
     ELSE IF operation.isMutating /\ ~allowWrites THEN ToolError("WRITES_DISABLED", 403)
     ELSE IF input.dry_run
       THEN Returned(DryRunResult(operation,
                                  requestEnvelope(operation, pathParams, queryParams),
                                  input, userId))
     ELSE IF operation.isMutating /\ input.confirm_write_token # TokenFor(input, userId)
       THEN ToolError("WRITE_CONFIRMATION_REQUIRED", 403)
     ELSE Pending

\* Preflight as it would be with the token compared before ALLOW_WRITES.
PreflightTokenFirst(input, userId) ==
  LET operation   == getOperation(input.operation_id)
      pathParams  == OrElse(input.path_params, EmptyObj)
      queryParams == OrElse(input.query_params, EmptyObj)
  IN IF operation = None THEN ToolError("OPERATION_NOT_FOUND", 404)
     ELSE IF ~validatePathParams(operation, pathParams) THEN ToolError("VALIDATION_ERROR", 400)
     ELSE IF ~validateQueryParams(queryParams) THEN ToolError("VALIDATION_ERROR", 400)
     ELSE IF ~validateBody(operation, input.body) THEN ToolError("VALIDATION_ERROR", 400)
     ELSE IF input.dry_run
       THEN Returned(DryRunResult(operation,
                                  requestEnvelope(operation, pathParams, queryParams),
                                  input, userId))
     ELSE IF operation.isMutating /\ input.confirm_write_token # TokenFor(input, userId)
       THEN ToolError("WRITE_CONFIRMATION_REQUIRED", 403)
     ELSE IF operation.isMutating /\ ~allowWrites THEN ToolError("WRITES_DISABLED", 403)
     ELSE Pending

\* The outcome of the synchronous prefix of execute: a thrown ToolError, the
\* dry-run response, or Pending when the call goes on to vend a credential.
Preflight(input, userId) ==
  LET operation   == getOperation(input.operation_id)
      pathParams  == OrElse(input.path_params, EmptyObj)
      queryParams == OrElse(input.query_params, EmptyObj)
  IN IF operation = None THEN ToolError("OPERATION_NOT_FOUND", 404)
     ELSE IF ~validatePathParams(operation, pathParams) THEN ToolError("VALIDATION_ERROR", 400)
     ELSE IF ~validateQueryParams(queryParams) THEN ToolError("VALIDATION_ERROR", 400)
     ELSE IF ~validateBody(operation, input.body) THEN ToolError("VALIDATION_ERROR", 400)
     ELSE IF input.dry_run
       THEN Returned(DryRunResult(operation,
                                  requestEnvelope(operation, pathParams, queryParams),
                                  input, userId))
     ELSE IF operation.isMutating /\ ~allowWrites THEN ToolError("WRITES_DISABLED", 403)
     ELSE IF operation.isMutating /\ input.confirm_write_token # TokenFor(input, userId)
       THEN ToolError("WRITE_CONFIRMATION_REQUIRED", 403)
     ELSE Pending

\* getValidator compiles and memoizes the validator when validateBody is
\* reached for an operation with a request schema.
ValidatorCacheAfter(input) ==
  LET operation   == getOperation(input.operation_id)
      pathParams  == OrElse(input.path_params, EmptyObj)
      queryParams == OrElse(input.query_params, EmptyObj)
  IN IF /\ operation # None
        /\ validatePathParams(operation, pathParams)
        /\ validateQueryParams(queryParams)
        /\ operation.requestSchema # None
       THEN MapSet(validatorCache, operation.operationId, getValidator(operation))
       ELSE validatorCache

Begin(input, userId) ==
  /\ call.pc = "idle"
  /\ LET outcome   == Preflight(input, userId)
         operation == getOperation(input.operation_id)
     IN call' = [IdleCall EXCEPT
                   !.pc = IF outcome = Pending THEN "vend" ELSE "done",
                   !.userId = userId,
                   !.input = input,
                   !.envelope = IF outcome.kind = "error" THEN None
                                ELSE requestEnvelope(operation,
                                                     OrElse(input.path_params, EmptyObj),
                                                     OrElse(input.query_params, EmptyObj)),
                   !.vended = (outcome = Pending),
                   !.outcome = outcome]
  /\ validatorCache' = ValidatorCacheAfter(input)
  /\ UNCHANGED <<config, components, services, minted, replayed, now, vendable, readCache, prev>>

(***************************************************************************)
(* execute, after the credential is vended (lines 201-280)                 *)
(***************************************************************************)
Max(a, b) == IF a >= b THEN a ELSE b

maxAttempts == Max(1, maxRetries + 1)

\* Idempotent as it would be if every method were retried.
IdempotentAnyMethod(method) == method \in {"GET", "HEAD", "POST", "PATCH", "PUT", "DELETE"}

Idempotent(method) == method \in {"GET", "HEAD"}

\* RetryableStatus as it would be if client errors were retried too.
RetryableStatusFrom400(status) == status >= 400

\* The response status on which fetchWithRetry tries again.
RetryableStatus(status) == status = 429 \/ status >= 500

\* finishedAt is a history field: Date.now() when the outcome was decided.
Done(outcome) == [call EXCEPT !.pc = "done", !.outcome = outcome, !.finishedAt = now]

\* A rejected fetch, in call.history (the statuses of the attempts so far).
Rejected == 0

\* Vend as it would be with the read cache consulted before the credential.
VendCacheFirst ==
  /\ call.pc = "vend"
  /\ LET operation == getOperation(call.input.operation_id)
         key       == getReadCacheKey(readCacheTtlMs, operation, call.envelope, call.userId)
         cached    == IF key = << >> THEN None ELSE getReadCacheEntry(readCache, key, now)
     IN /\ readCache' = IF key = << >> THEN readCache
                        ELSE ReadCacheAfterGet(readCache, key, now)
        /\ call' = IF cached # None
                     THEN [Done(Returned(cached)) EXCEPT !.cacheKey = key, !.lookupAt = now]
                     ELSE IF call.userId \notin vendable
                       THEN Done(ToolError("AUTH_REQUIRED", 401))
                       ELSE [call EXCEPT !.pc = "fetch", !.cacheKey = key,
                                         !.lookupAt = now, !.attempt = 1, !.sent = 1]
  /\ UNCHANGED <<config, components, services, minted, replayed, now, vendable, validatorCache, prev>>

\* getAccessToken resolves; then the read cache lookup and, on a miss, the
\* first fetch of fetchWithRetry.
Vend ==
  /\ call.pc = "vend"
  /\ LET operation == getOperation(call.input.operation_id)
         key       == getReadCacheKey(readCacheTtlMs, operation, call.envelope, call.userId)
         cached    == IF key = << >> THEN None ELSE getReadCacheEntry(readCache, key, now)
     IN IF call.userId \notin vendable
          THEN /\ call' = Done(ToolError("AUTH_REQUIRED", 401))
               /\ UNCHANGED readCache
          ELSE /\ readCache' = IF key = << >> THEN readCache
                               ELSE ReadCacheAfterGet(readCache, key, now)
               /\ call' = IF cached # None
                            THEN [Done(Returned(cached)) EXCEPT !.cacheKey = key, !.lookupAt = now]
                            ELSE [call EXCEPT !.pc = "fetch", !.cacheKey = key,
                                              !.lookupAt = now, !.attempt = 1, !.sent = 1]
  /\ UNCHANGED <<config, components, services, minted, replayed, now, vendable, validatorCache, prev>>

\* Finish as it would be if the result were cached before response.ok is
\* tested.
FinishCacheFirst(response) ==
  LET result == BuildResult(call.envelope, response)
  IN /\ readCache' = IF call.cacheKey = << >> THEN readCache
                     ELSE setReadCacheEntry(readCache, call.cacheKey, result,
                                            now, readCacheTtlMs, call.userId)
     /\ call' = IF ~ResponseOk(response)
                  THEN [Done(ToolError("HEROKU_API_ERROR", response.status))
                          EXCEPT !.history = Append(@, response.status),
                                 !.received = response]
                  ELSE [Done(Returned(result)) EXCEPT !.history = Append(@, response.status),
                                                      !.received = response]

\* Lines 236-279: the response fetchWithRetry returned is turned into the
\* result, or into HEROKU_API_ERROR when it is not OK.
Finish(response) ==
  IF ~ResponseOk(response)
    THEN /\ call' = [Done(ToolError("HEROKU_API_ERROR", response.status))
                        EXCEPT !.history = Append(@, response.status),
                               !.received = response]
         /\ UNCHANGED readCache
    ELSE LET result == BuildResult(call.envelope, response)
         IN /\ call' = [Done(Returned(result)) EXCEPT !.history = Append(@, response.status),
                                                        !.received = response]
            /\ readCache' = IF call.cacheKey = << >> THEN readCache
                            ELSE setReadCacheEntry(readCache, call.cacheKey, result,
                                                   now, readCacheTtlMs, call.userId)

\* The fetch of the current attempt resolves with a response.  received is
\* a history field: the response fetchWithRetry saw last.
Deliver(response) ==
  /\ call.pc = "fetch"
  /\ LET idempotent == Idempotent(getOperation(call.input.operation_id).method)
     IN IF ~idempotent \/ call.attempt = maxAttempts
          THEN Finish(response)
          ELSE IF RetryableStatus(response.status)
            THEN /\ call' = [call EXCEPT !.pc = "sleep",
                                              !.history = Append(@, response.status),
                                              !.received = response]
                 /\ UNCHANGED readCache
            ELSE Finish(response)
  /\ UNCHANGED <<config, components, services, minted, replayed, now, vendable, validatorCache, prev>>

\* The upstream API answers with the response of the given status.
Respond(status) == Deliver(UpstreamResponse(status))

FetchErrors == {"AbortError", "TypeError"}

\* Fail as it would be without the test for AbortError.
FailNoTimeout(errorName) ==
  /\ call.pc = "fetch"
  /\ LET idempotent == Idempotent(getOperation(call.input.operation_id).method)
         after      == [call EXCEPT !.history = Append(@, Rejected), !.lastError = errorName]
     IN call' = IF call.attempt >= maxAttempts \/ ~idempotent
                  THEN [after EXCEPT !.pc = "done", !.finishedAt = now,
                                     !.outcome = ToolError("REQUEST_FAILED", 502)]
                  ELSE [after EXCEPT !.pc = "sleep"]
  /\ UNCHANGED <<config, components, services, minted, replayed, now, vendable, readCache, validatorCache, prev>>

\* The fetch of the current attempt rejects: the timeout aborted it
\* (AbortError) or the transport failed.  lastError is a history field: the
\* name of the error of the last rejected attempt.
Fail(errorName) ==
  /\ call.pc = "fetch"
  /\ LET idempotent == Idempotent(getOperation(call.input.operation_id).method)
         after      == [call EXCEPT !.history = Append(@, Rejected), !.lastError = errorName]
     IN call' = IF call.attempt >= maxAttempts \/ ~idempotent
                  THEN IF errorName = "AbortError"
                         THEN [after EXCEPT !.pc = "done", !.finishedAt = now,
                                            !.outcome = ToolError("REQUEST_TIMEOUT", 504)]
                         ELSE [after EXCEPT !.pc = "done", !.finishedAt = now,
                                            !.outcome = ToolError("REQUEST_FAILED", 502)]
                  ELSE [after EXCEPT !.pc = "sleep"]
  /\ UNCHANGED <<config, components, services, minted, replayed, now, vendable, readCache, validatorCache, prev>>

\* sleep(150 * attempt) is over: the loop issues the next fetch.
Retry ==
  /\ call.pc = "sleep"
  /\ call' = [call EXCEPT !.pc = "fetch", !.attempt = @ + 1, !.sent = @ + 1]
  /\ UNCHANGED <<config, components, services, minted, replayed, now, vendable, readCache, validatorCache, prev>>

\* The promise of execute settles.  prev remembers the call when it was a
\* cacheable read that returned a result, and is cleared by any other call.
Return ==
  /\ call.pc = "done"
  /\ prev' = IF call.cacheKey # << >> /\ call.outcome.kind = "ok"
               THEN [finishedAt |-> call.finishedAt, result |-> call.outcome.result,
                     sent |-> call.sent, t |-> "read", userId |-> call.userId]
               ELSE NoPrev
  /\ call' = IdleCall
  /\ UNCHANGED <<config, components, services, minted, replayed, now, vendable, readCache, validatorCache>>

(***************************************************************************)
(* Environment                                                             *)
(***************************************************************************)
Tick ==
  /\ now < MaxTime
  /\ now' = now + 1
  /\ UNCHANGED <<config, components, services, minted, replayed, vendable, readCache, validatorCache, call, prev>>

\* An OAuth callback stores a token record for the user.
Grant(userId) ==
  /\ userId \notin vendable
  /\ vendable' = vendable \cup {userId}
  /\ UNCHANGED <<config, components, services, minted, replayed, now, readCache, validatorCache, call, prev>>

\* The user's record expires without a refresh token, or is deleted.
Revoke(userId) ==
  /\ userId \in vendable
  /\ vendable' = vendable \ {userId}
  /\ UNCHANGED <<config, components, services, minted, replayed, now, readCache, validatorCache, call, prev>>

(***************************************************************************)
(* Requests                                                                *)
(***************************************************************************)
AppA == Obj(<<KV("app_identity", Str("a"))>>)
AppEmpty == Obj(<<KV("app_identity", Str(""))>>)
QueryQ == Obj(<<KV("q", Num("1"))>>)
QueryBad == Obj(<<KV("q", Arr(<<Str("1")>>))>>)
BodyNR == Obj(<<KV("name", Str("demo")), KV("region", Str("us"))>>)
BodyRN == Obj(<<KV("region", Str("us")), KV("name", Str("demo"))>>)

GatePathParams == {Undefined, AppA, AppEmpty}
GateQueryParams == {Undefined, QueryQ, QueryBad}
GateBodies == {Undefined, Null, BodyNR, BodyRN}
GateOperationIds ==
  { <<"POST", " ", "/apps">>, <<"DELETE", " ", "/apps/", "{app_identity}">>,
    UnknownOperationId }
GateCallers == { <<"u1">> }

\* Tokens a caller may present: none, or the token of a dry run whose
\* request differs from the call in at most one component.
ConfirmChoices(operation_id, path_params, query_params, body, userId) ==
  {NoConfirm, <<"anything">>}
  \cup { TokenFor(ExecuteRequest(operation_id, path_params, query_params, body, TRUE, NoConfirm), u) :
           u \in UserIds }
  \cup { TokenFor(ExecuteRequest(o, path_params, query_params, body, TRUE, NoConfirm), userId) :
           o \in GateOperationIds }
  \cup { TokenFor(ExecuteRequest(operation_id, pp, query_params, body, TRUE, NoConfirm), userId) :
           pp \in GatePathParams }
  \cup { TokenFor(ExecuteRequest(operation_id, path_params, qp, body, TRUE, NoConfirm), userId) :
           qp \in {Undefined, QueryQ} }
  \cup { TokenFor(ExecuteRequest(operation_id, path_params, query_params, b, TRUE, NoConfirm), userId) :
           b \in GateBodies }

\* An execute call of the write-gate scenario: any request shape on the
\* mutating operations and on an unknown operation id, and the body-less
\* shapes on a read operation.
BeginGate ==
  \/ \E userId \in GateCallers, operation_id \in GateOperationIds,
        path_params \in GatePathParams, query_params \in GateQueryParams,
        body \in GateBodies, dry_run \in BOOLEAN :
       \E confirm \in IF dry_run THEN {NoConfirm, <<"anything">>}
                      ELSE ConfirmChoices(operation_id, path_params, query_params, body, userId) :
         Begin(ExecuteRequest(operation_id, path_params, query_params, body, dry_run, confirm),
               userId)
  \/ \E userId \in GateCallers, path_params \in GatePathParams,
        query_params \in GateQueryParams, dry_run \in BOOLEAN,
        confirm \in {NoConfirm, <<"anything">>} :
       Begin(ExecuteRequest(<<"HEAD", " ", "/apps/", "{app_identity}">>, path_params,
                            query_params, Undefined, dry_run, confirm),
             userId)

\* The upstream answers of the read scenario: two successes whose results
\* differ, a status that is retried and one that is not.
ReadStatuses == {200, 204, 404, 500}

\* An execute call of the read scenario: "GET /apps" by either user.
BeginRead ==
  \E userId \in UserIds :
    Begin(ExecuteRequest(<<"GET", " ", "/apps">>, Undefined, Undefined, Undefined,
                         FALSE, NoConfirm),
          userId)

(***************************************************************************)
(* Dry run, then replay                                                    *)
(***************************************************************************)
QueryQString == Obj(<<KV("q", Str("1"))>>)
BodyN == Obj(<<KV("name", Str("demo"))>>)

TokenOperationIds ==
  { <<"POST", " ", "/apps">>, <<"DELETE", " ", "/apps/", "{app_identity}">>,
    <<"x", "|", "POST", " ", "/apps">> }
\* User ids as resolveUserId takes them from the x-user-id header.
TokenUserIds == UserIds \cup { <<"u1", "|", "x">> }
TokenPathParams == {Undefined, EmptyObj, AppA, AppEmpty}
TokenQueryParams == {Undefined, QueryQ, QueryQString}
TokenBodies == {Undefined, Null, BodyN, BodyNR, BodyRN}

\* execute with dry_run = true on a mutating operation returns a token.
DryRun(input, userId) ==
  /\ minted = None
  /\ LET outcome == Preflight(input, userId)
     IN /\ outcome.kind = "ok"
        /\ minted' = [input |-> input,
                      token |-> Get(outcome.result.body, "confirm_write_token").text,
                      userId |-> userId]
  /\ UNCHANGED <<config, components, services, now, vendable, readCache, validatorCache, call, prev, replayed>>

\* execute without dry_run, presenting the token of the dry run.
Replay(input, userId) ==
  /\ minted # None
  /\ replayed = None
  /\ replayed' = [input |-> input, outcome |-> Preflight(input, userId), userId |-> userId]
  /\ UNCHANGED <<config, components, services, now, vendable, readCache, validatorCache, call, prev, minted>>

(***************************************************************************)
(* The response scenario: upstream bodies and headers, small output limits *)
(***************************************************************************)
\* Values of EXECUTE_MAX_BODY_BYTES and EXECUTE_BODY_PREVIEW_CHARS (any
\* positive integers) around the sizes of the bodies below.
BodyByteLimits == {1, 12, 22}
PreviewCharLimits == {1, 6, 30}

\* Parsed response bodies: JSON documents and plain text.
UpstreamBodies ==
  { Null,
    Str(""), Str("d"), Str("é"),
    Obj(<<KV("name", Str("d"))>>),
    Obj(<<KV("token", Str("s"))>>),
    Obj(<<KV("Access_Token", Str("s")), KV("id", Num("1"))>>),
    Obj(<<KV("name", Obj(<<KV("password", Null)>>))>>),
    Arr(<<Obj(<<KV("token", Str("s"))>>), Str("é")>>),
    Obj(<<KV("items", Arr(<<Obj(<<KV("secrets", Obj(<<KV("name", Str("d"))>>))>>),
                            Obj(<<KV("name", Str("é")), KV("token", Str("s"))>>)>>))>>) }

UpstreamHeaders ==
  { { <<"content-type", "application/json">>, <<"request-id", "req-a">>,
      <<"set-cookie", "sid">> },
    { <<"content-type", "application/json">>, <<"proxy-authorization", "basic">>,
      <<"x-api-key", "k">> } }

\* An execute call of the response scenario: a read of "GET /apps", or a dry
\* run of it or of "POST /apps".
BeginBody ==
  \/ \E dry_run \in BOOLEAN :
       Begin(ExecuteRequest(<<"GET", " ", "/apps">>, Undefined, Undefined, Undefined,
                            dry_run, NoConfirm),
             <<"u1">>)
  \/ Begin(ExecuteRequest(<<"POST", " ", "/apps">>, Undefined, Undefined, BodyNR,
                          TRUE, NoConfirm),
           <<"u1">>)

(***************************************************************************)
(* HerokuOAuthService: pending states, the callback, token vending         *)
(***************************************************************************)
StateMaxAgeMs == 10 * 60 * 1000

thresholdMs == 60 * 1000

MaxStates == 2

MaxCallbacks == 2

MaxAdvances == 2

MaxGrants == 2

\* A state no buildAuthorizationUrl call ever returned; randomBytes(16) is
\* taken never to repeat, so the states issued are 1, 2, ... in turn.
ForgedState == 0

\* What a callback can be given: a state issued so far, or a forged one.
PresentableStates == {ForgedState} \cup (1..oauth.issued)

Durations == {thresholdMs, StateMaxAgeMs}

ExpiresIn == {0, 60, 120}

\* Date.parse yields NaN for text that is no date; no instant of the model
\* is negative.
NaN == -1

Iso(ms) == [t |-> "iso", v |-> ms]

Unparseable == [t |-> "text"]

DateParse(text) == IF text.t = "iso" THEN text.v ELSE NaN

toIsoFromNow(seconds) ==
  IF seconds = 0 THEN None ELSE Iso(now + seconds * 1000)

AccessToken(n) == [t |-> "access_token", v |-> n]

RefreshToken(n) == [t |-> "refresh_token", v |-> n]

\* The token endpoint's answers: a failure, or a grant with or without
\* expires_in and refresh_token.
TokenEndpointResponses ==
  {[ok |-> FALSE]}
    \cup [expires_in : ExpiresIn, ok : {TRUE}, refresh_token : BOOLEAN]

\* The record of a grant that keeps no refresh token the answer does not
\* carry.
TokenRecordForgets(parsed, refreshToken) ==
  [accessToken |-> AccessToken(oauth.grants + 1),
   expiresAt |-> toIsoFromNow(parsed.expires_in),
   refreshToken |-> IF parsed.refresh_token
                      THEN RefreshToken(oauth.grants + 1)
                      ELSE None]

TokenRecord(parsed, refreshToken) ==
  [accessToken |-> AccessToken(oauth.grants + 1),
   expiresAt |-> toIsoFromNow(parsed.expires_in),
   refreshToken |-> IF parsed.refresh_token
                      THEN RefreshToken(oauth.grants + 1)
                      ELSE refreshToken]

\* The answers the code exchange of a callback is given.
CallbackResponses ==
  {[ok |-> FALSE],
   [expires_in |-> 120, ok |-> TRUE, refresh_token |-> TRUE]}

IdleVend ==
  [at |-> 0, calls |-> 0, pc |-> "idle", record |-> None,
   refreshed |-> None, result |-> None, userId |-> << >>]

OAuthIdle ==
  [credentials |-> TRUE, grants |-> 0, issued |-> 0, issuedAt |-> << >>, log |-> << >>,
   stateStore |-> << >>, ticks |-> 0, tokenStore |-> << >>, vend |-> IdleVend,
   vends |-> << >>]

executorState ==
  <<vendable, readCache, validatorCache, call, prev, minted, replayed, tool>>

buildAuthorizationUrl(userId) ==
  /\ oauth.issued < MaxStates
  /\ LET state == oauth.issued + 1
     IN oauth' = [oauth EXCEPT
                    !.issued = state,
                    !.issuedAt = MapSet(@, state, now),
                    !.stateStore =
                      MapSet(@, state, [createdAtMs |-> now, userId |-> userId])]
  /\ UNCHANGED <<config, components, now, executorState, schemaService>>

\* What a callback is told about the state it presents, beside the code's
\* own verdict: kept for the properties only.
Presentation(state) ==
  [age |-> IF state \in DOMAIN oauth.issuedAt
             THEN now - oauth.issuedAt[state] ELSE 0,
   issued |-> state \in DOMAIN oauth.issuedAt,
   presentedBefore |-> \E i \in 1..Len(oauth.log) : oauth.log[i].state = state,
   state |-> state]

LogEntry(state, result, userId) ==
  [presentation |-> Presentation(state), result |-> result, state |-> state,
   userId |-> userId]

\* A callback that leaves the state it found in the store.
handleOAuthCallbackKeepsState(state) ==
  /\ Len(oauth.log) < MaxCallbacks
  /\ LET pending == IF state \in DOMAIN oauth.stateStore
                      THEN oauth.stateStore[state] ELSE None
     IN IF pending = None
          THEN oauth' = [oauth EXCEPT
                  !.log = Append(@, LogEntry(state, "Invalid or expired OAuth state", << >>))]
          ELSE IF now - pending.createdAtMs > StateMaxAgeMs
            THEN oauth' = [oauth EXCEPT
                    !.log = Append(@, LogEntry(state, "OAuth state expired", pending.userId))]
            ELSE oauth' = [oauth EXCEPT
                    !.log = Append(@, LogEntry(state, "exchanging", pending.userId))]
  /\ UNCHANGED <<config, components, now, executorState, schemaService>>

\* handleOAuthCallback up to its first await: the lookup, the delete, the
\* age test and the start of the code exchange.
handleOAuthCallback(state) ==
  /\ Len(oauth.log) < MaxCallbacks
  /\ LET pending == IF state \in DOMAIN oauth.stateStore
                      THEN oauth.stateStore[state] ELSE None
     IN IF pending = None
          THEN oauth' = [oauth EXCEPT
                  !.log = Append(@, LogEntry(state, "Invalid or expired OAuth state", << >>))]
          ELSE IF now - pending.createdAtMs > StateMaxAgeMs
            THEN oauth' = [oauth EXCEPT
                    !.log = Append(@, LogEntry(state, "OAuth state expired", pending.userId)),
                    !.stateStore = MapDelete(@, {state})]
            ELSE oauth' = [oauth EXCEPT
                    !.log = Append(@, LogEntry(state, "exchanging", pending.userId)),
                    !.stateStore = MapDelete(@, {state})]
  /\ UNCHANGED <<config, components, now, executorState, schemaService>>

\* A code exchange that stores a record whatever the token endpoint answers.
exchangeAuthorizationCodeStoresAnyway(i, response) ==
  /\ i \in 1..Len(oauth.log)
  /\ oauth.log[i].result = "exchanging"
  /\ response.ok => oauth.grants < MaxGrants
  /\ IF response.ok /\ oauth.credentials
       THEN oauth' = [oauth EXCEPT
               !.grants = @ + 1,
               !.log[i].result = "complete",
               !.tokenStore =
                 MapSet(@, oauth.log[i].userId, TokenRecord(response, None))]
       ELSE oauth' = [oauth EXCEPT
               !.log[i].result = "Heroku OAuth token exchange failed",
               !.tokenStore =
                 MapSet(@, oauth.log[i].userId,
                        [accessToken |-> AccessToken(0), expiresAt |-> None,
                         refreshToken |-> None])]
  /\ UNCHANGED <<config, components, now, executorState, schemaService>>

\* The code exchange of callback i ends: without client id or secret it
\* throws before any request (lines 133-137); otherwise the token endpoint
\* answers, and a grant is stored under the user the state was issued to.
exchangeAuthorizationCode(i, response) ==
  /\ i \in 1..Len(oauth.log)
  /\ oauth.log[i].result = "exchanging"
  /\ response.ok => oauth.grants < MaxGrants
  /\ IF ~oauth.credentials
       THEN oauth' = [oauth EXCEPT
               !.log[i].result = "HEROKU_OAUTH_CLIENT_ID and HEROKU_OAUTH_CLIENT_SECRET are required"]
       ELSE IF response.ok
       THEN oauth' = [oauth EXCEPT
               !.grants = @ + 1,
               !.log[i].result = "complete",
               !.tokenStore =
                 MapSet(@, oauth.log[i].userId, TokenRecord(response, None))]
       ELSE oauth' = [oauth EXCEPT
               !.log[i].result = "Heroku OAuth token exchange failed"]
  /\ UNCHANGED <<config, components, now, executorState, schemaService>>

purgeExpiredState ==
  /\ \E state \in DOMAIN oauth.stateStore :
        now - oauth.stateStore[state].createdAtMs > StateMaxAgeMs
  /\ oauth' = [oauth EXCEPT
       !.stateStore =
         [state \in {s \in DOMAIN @ : ~(now - @[s].createdAtMs > StateMaxAgeMs)}
            |-> @[state]]]
  /\ UNCHANGED <<config, components, now, executorState, schemaService>>

Advance(duration) ==
  /\ oauth.ticks < MaxAdvances
  /\ now' = now + duration
  /\ oauth' = [oauth EXCEPT !.ticks = @ + 1]
  /\ UNCHANGED <<config, components, executorState, schemaService>>

\* Vending that trusts the stored token until the very instant it expires.
getValidAccessTokenNoMargin(userId) ==
  /\ oauth.vend.pc = "idle"
  /\ LET record == IF userId \in DOMAIN oauth.tokenStore
                     THEN oauth.tokenStore[userId] ELSE None
         begun == [IdleVend EXCEPT !.at = now, !.record = record,
                                   !.userId = userId]
         return(result) == [begun EXCEPT !.pc = "done", !.result = result]
         expiresAtMs == DateParse(record.expiresAt)
     IN oauth' = [oauth EXCEPT !.vend =
          IF record = None THEN return(Null)
          ELSE IF record.expiresAt = None THEN return(record.accessToken)
          ELSE IF expiresAtMs = NaN THEN return(record.accessToken)
          ELSE IF now < expiresAtMs THEN return(record.accessToken)
          ELSE IF record.refreshToken = None THEN return(Null)
          ELSE [begun EXCEPT !.calls = 1, !.pc = "refresh"]]
  /\ UNCHANGED <<config, components, now, executorState, schemaService>>

\* getValidAccessToken up to the refresh request: the record read from the
\* store and the expiry test.
VendBegun(userId) ==
  LET record == IF userId \in DOMAIN oauth.tokenStore
                  THEN oauth.tokenStore[userId] ELSE None
      begun == [IdleVend EXCEPT !.at = now, !.record = record,
                                !.userId = userId]
      return(result) == [begun EXCEPT !.pc = "done", !.result = result]
      expiresAtMs == DateParse(record.expiresAt)
  IN IF record = None THEN return(Null)
     ELSE IF record.expiresAt = None THEN return(record.accessToken)
     ELSE IF expiresAtMs = NaN THEN return(record.accessToken)
     ELSE IF now < expiresAtMs - thresholdMs THEN return(record.accessToken)
     ELSE IF record.refreshToken = None THEN return(Null)
     ELSE [begun EXCEPT !.calls = 1, !.pc = "refresh"]

getValidAccessToken(userId) ==
  /\ oauth.vend.pc = "idle"
  /\ oauth' = [oauth EXCEPT !.vend = VendBegun(userId)]
  /\ UNCHANGED <<config, components, now, executorState, schemaService>>

(***************************************************************************)
(* Vending calls that overlap                                              *)
(***************************************************************************)
MaxVends == 2

\* A getValidAccessToken call among several: where it stands (vend) and the
\* calls that had not returned when it read the record (inflight, for the
\* properties).
VendCall(id, userId) ==
  /\ id \notin DOMAIN oauth.vends
  /\ oauth' = [oauth EXCEPT !.vends =
       MapSet(@, id,
              [inflight |-> { other \in DOMAIN oauth.vends :
                                oauth.vends[other].vend.pc # "done" },
               vend |-> VendBegun(userId)])]
  /\ UNCHANGED <<config, components, now, executorState, schemaService>>

\* The token endpoint answers the refresh_token grant of call id.
VendAnswered(id, response) ==
  /\ id \in DOMAIN oauth.vends
  /\ oauth.vends[id].vend.pc = "refresh"
  /\ response.ok => oauth.grants < MaxGrants
  /\ IF response.ok
       THEN oauth' = [oauth EXCEPT
               !.grants = @ + 1,
               !.vends[id].vend.pc = "set",
               !.vends[id].vend.refreshed =
                 TokenRecord(response, oauth.vends[id].vend.record.refreshToken)]
       ELSE oauth' = [oauth EXCEPT
               !.vends[id].vend.pc = "done",
               !.vends[id].vend.result =
                 [t |-> "error", v |-> "Heroku OAuth refresh failed"]]
  /\ UNCHANGED <<config, components, now, executorState, schemaService>>

\* tokenStore.set of call id resolves and the call returns the new token.
VendStored(id) ==
  /\ id \in DOMAIN oauth.vends
  /\ oauth.vends[id].vend.pc = "set"
  /\ oauth' = [oauth EXCEPT
       !.tokenStore = MapSet(@, oauth.vends[id].vend.userId,
                             oauth.vends[id].vend.refreshed),
       !.vends[id].vend.pc = "done",
       !.vends[id].vend.result = oauth.vends[id].vend.refreshed.accessToken]
  /\ UNCHANGED <<config, components, now, executorState, schemaService>>

\* The token endpoint answers the refresh_token grant.
refreshAccessToken(response) ==
  /\ oauth.vend.pc = "refresh"
  /\ response.ok => oauth.grants < MaxGrants
  /\ IF response.ok
       THEN oauth' = [oauth EXCEPT
               !.grants = @ + 1,
               !.vend.pc = "set",
               !.vend.refreshed =
                 TokenRecord(response, oauth.vend.record.refreshToken)]
       ELSE oauth' = [oauth EXCEPT
               !.vend.pc = "done",
               !.vend.result = [t |-> "error", v |-> "Heroku OAuth refresh failed"]]
  /\ UNCHANGED <<config, components, now, executorState, schemaService>>

\* tokenStore.set resolves and getValidAccessToken returns the new token.
StoreRefreshed ==
  /\ oauth.vend.pc = "set"
  /\ oauth' = [oauth EXCEPT
       !.tokenStore = MapSet(@, oauth.vend.userId, oauth.vend.refreshed),
       !.vend.pc = "done",
       !.vend.result = oauth.vend.refreshed.accessToken]
  /\ UNCHANGED <<config, components, now, executorState, schemaService>>

VendReturn ==
  /\ oauth.vend.pc = "done"
  /\ oauth' = [oauth EXCEPT !.vend = IdleVend]
  /\ UNCHANGED <<config, components, now, executorState, schemaService>>

\* Records a token store file may hold from an earlier run.
StoredRecords ==
  { [accessToken |-> AccessToken(0), expiresAt |-> expiresAt,
     refreshToken |-> refreshToken] :
      expiresAt \in {None, Unparseable, Iso(thresholdMs), Iso(2 * thresholdMs)},
      refreshToken \in {None, RefreshToken(0)} }

(***************************************************************************)
(* HerokuSchemaService, the search index, and main's wiring of the two     *)
(***************************************************************************)
MaxRuns == 3

MaxTicks == 2

MaxCallers == 2

\* Catalogs are sets of operation ids, and the root schema is the document
\* they were normalized from.
RootSchemaOf(operations) == [links |-> operations]

\* The payload persistCache writes.
CachePayload(s) ==
  [docsContext |-> s.docsContext, docsEtag |-> s.docsEtag, etag |-> s.etag,
   operations |-> s.operations, rootSchema |-> s.rootSchema]

\* The cache file is absent or holds a catalog with the etag it was fetched
\* under.
CacheFiles ==
  {None,
   [docsContext |-> "", docsEtag |-> Undefined, etag |-> Str("e1"),
    operations |-> {"a"}, rootSchema |-> RootSchemaOf({"a"})]}

\* The schema endpoint's answers.  json is FALSE when the body of a 200 does
\* not parse; a 304 answers a conditional request only.
SchemaResponses ==
  {[etag |-> Null, json |-> FALSE, operations |-> {}, status |-> 304],
   [etag |-> Null, json |-> FALSE, operations |-> {}, status |-> 500],
   [etag |-> Str("e2"), json |-> FALSE, operations |-> {}, status |-> 200],
   [etag |-> Str("e1"), json |-> TRUE, operations |-> {"a"}, status |-> 200],
   [etag |-> Str("e2"), json |-> TRUE, operations |-> {"a", "b"}, status |-> 200]}

\* The documentation page's answers: not modified (to a conditional request
\* only), an error status, the page.
DocsResponses ==
  {[etag |-> Null, status |-> 304, text |-> ""],
   [etag |-> Null, status |-> 500, text |-> ""],
   [etag |-> Str("d1"), status |-> 200, text |-> "d1"]}

NoRun == 0

SchemaIdle ==
  [cacheFile |-> None, cacheLoaded |-> FALSE, callers |-> << >>, docsContext |-> "",
   docsEtag |-> Undefined, etag |-> Undefined, fetches |-> 0, index |-> {},
   main |-> "boot", nextRun |-> 0, operationById |-> << >>, operations |-> {},
   refreshInFlight |-> NoRun, rootSchema |-> Undefined, runs |-> << >>,
   ticks |-> 0]

\* What bootstrapFromCache assigns from a cache file it accepts (lines 80-88).
LoadCache(s, cache) ==
  [s EXCEPT !.docsContext = cache.docsContext,
            !.docsEtag = cache.docsEtag,
            !.etag = cache.etag,
            !.operationById = [id \in cache.operations |-> id],
            !.operations = cache.operations,
            !.rootSchema = cache.rootSchema]

\* bootstrapFromCache without the cacheLoaded test: every call reads the
\* file.
bootstrapEveryCall(s) ==
  IF s.cacheFile = None
    THEN [s EXCEPT !.cacheLoaded = TRUE]
    ELSE LoadCache([s EXCEPT !.cacheLoaded = TRUE], s.cacheFile)

\* bootstrapFromCache (lines 57-105): nothing once cacheLoaded is set,
\* otherwise the flag and what the file on disk holds.
bootstrapOnce(s) ==
  IF s.cacheLoaded THEN s
  ELSE IF s.cacheFile = None
    THEN [s EXCEPT !.cacheLoaded = TRUE]
    ELSE LoadCache([s EXCEPT !.cacheLoaded = TRUE], s.cacheFile)

\* refresh() past the join point: refreshInternal begins and its promise is
\* kept in refreshInFlight.
StartRun(s, force) ==
  [s EXCEPT !.nextRun = @ + 1,
            !.refreshInFlight = s.nextRun + 1,
            !.runs = MapSet(@, s.nextRun + 1,
                            [catalogChanged |-> FALSE, conditional |-> FALSE,
                             force |-> force, gets |-> 0, pc |-> "bootstrap"])]

\* refresh() without the join point.
refreshAlwaysStarts(s, force) == StartRun(s, force)

\* refresh(force) up to its await: the service afterwards; the caller waits
\* for the run in refreshInFlight.
refresh(s, force) ==
  IF s.refreshInFlight # NoRun THEN s ELSE StartRun(s, force)

\* What catalog and ranked hold for a caller that has not searched.
NotSearched == {"not searched"}

\* One caller of refresh or ensureReady.  Beside who it is, where it stands
\* and the run it waits for, it keeps for the properties: whether it found
\* the catalog empty, whether it joined a run, the run it returned from
\* (via), and what its search ranked while which catalog was published.
Caller(who, pc, run, empty, joined) ==
  [catalog |-> NotSearched, empty |-> empty, joined |-> joined, pc |-> pc,
   ranked |-> NotSearched, run |-> run, via |-> None, who |-> who]

\* searchIndex.search: the handler runs on from ensureReady's return without
\* leaving the microtask queue, so it ranks the index of that moment.
search(s, caller) ==
  [caller EXCEPT !.catalog = s.operations, !.ranked = s.index]

FreeCallerIds(s) == (1..MaxCallers) \ DOMAIN s.callers

\* The service after caller id has called refresh(force) as who.
Join(s, id, who, force, empty) ==
  LET after == refresh(s, force)
  IN [after EXCEPT !.callers =
        MapSet(@, id, Caller(who, "await", after.refreshInFlight, empty,
                             s.refreshInFlight # NoRun))]

\* ensureReady that refreshes whatever the catalog holds.
ensureReadyAlwaysRefresh(s, id, who) ==
  Join(s, id, who, TRUE, s.operations = {})

\* ensureReady as a tool handler calls it, the cache file long read.
EnsureReadyAfterBootstrap(s, id, who) ==
  IF s.operations # {}
    THEN [s EXCEPT !.callers =
            MapSet(@, id, Caller(who, "ready", NoRun, FALSE, FALSE))]
    ELSE Join(s, id, who, TRUE, TRUE)

ensureReady(s, id, who) == EnsureReadyAfterBootstrap(bootstrapOnce(s), id, who)

\* main up to its first refreshCatalog (part_007 lines 51-54): the awaited
\* bootstrapFromCache on the file found on disk, then the index.
BootLoaded(cache) ==
  [bootstrapOnce([schemaService EXCEPT !.cacheFile = cache]) EXCEPT
     !.index = IF cache # None /\ cache.operations # {} THEN cache.operations ELSE @,
     !.main = "serving"]

\* main: the cold boot from the cache file, the index built from a catalog
\* that is not empty, and the first refreshCatalog, forced when it is.
Boot(cache) ==
  /\ schemaService.main = "boot"
  /\ LET loaded == BootLoaded(cache)
     IN schemaService' = Join(loaded, 1, "startup", loaded.operations = {},
                       loaded.operations = {})
  /\ UNCHANGED <<config, components, now, executorState, oauth>>

\* The interval timer fires: refreshCatalog(false).
Ticker ==
  /\ schemaService.main = "serving"
  /\ schemaService.ticks < MaxTicks
  /\ schemaService.refreshInFlight = NoRun => schemaService.nextRun < MaxRuns
  /\ \E id \in FreeCallerIds(schemaService) :
        schemaService' = [Join(schemaService, id, "ticker", FALSE, schemaService.operations = {})
                     EXCEPT !.ticks = @ + 1]
  /\ UNCHANGED <<config, components, now, executorState, oauth>>

\* A search tool call arrives and calls ensureReady; with a catalog there
\* the search follows at once.
SearchCall ==
  /\ schemaService.main = "serving"
  /\ schemaService.refreshInFlight = NoRun => schemaService.nextRun < MaxRuns
  /\ \E id \in FreeCallerIds(schemaService) :
        LET after == ensureReady(schemaService, id, "search")
        IN schemaService' =
             IF after.callers[id].pc = "ready"
               THEN [after EXCEPT !.callers[id] = search(after, @)]
               ELSE after
  /\ UNCHANGED <<config, components, now, executorState, oauth>>

\* If-None-Match on every request of a service that has an etag.
IfNoneMatchWhenTagged(s, force) == s.etag # Undefined

\* refreshInternal's condition for the If-None-Match header.
IfNoneMatch(s, force) == ~force /\ s.etag # Undefined

\* refreshInternal sends the schema GET, with If-None-Match unless forced or
\* without an etag.
SendSchemaGet(run) ==
  /\ run \in DOMAIN schemaService.runs
  /\ schemaService.runs[run].pc = "bootstrap"
  /\ schemaService' = [bootstrapOnce(schemaService) EXCEPT
       !.fetches = @ + 1,
       !.runs[run].conditional =
         IfNoneMatch(bootstrapOnce(schemaService), schemaService.runs[run].force),
       !.runs[run].gets = @ + 1,
       !.runs[run].pc = "schema"]
  /\ UNCHANGED <<config, components, now, executorState, oauth>>

\* The settling of a run as it would be if refresh() left refreshInFlight
\* set.
SettleKeepsSlot(s, run, ok) ==
  LET waiting == {id \in DOMAIN s.callers : s.callers[id].run = run}
      rebuilds == \E id \in waiting : s.callers[id].who \in {"startup", "ticker"}
      tools == {id \in DOMAIN s.callers :
                  id \notin waiting \/ s.callers[id].who \in {"search", "execute"}}
      rebuilt == [s EXCEPT
                    !.index = IF ok /\ rebuilds /\ s.operations # {}
                                THEN s.operations ELSE @,
                    !.runs = MapDelete(@, {run})]
      returned(caller) ==
        [caller EXCEPT !.pc = IF ok THEN "ready" ELSE "failed",
                       !.via = [conditional |-> s.runs[run].conditional,
                                force |-> s.runs[run].force]]
  IN [rebuilt EXCEPT
        !.callers =
          [id \in tools |->
             IF id \notin waiting THEN s.callers[id]
             ELSE IF ok /\ s.callers[id].who = "search"
               THEN search(rebuilt, returned(s.callers[id]))
             ELSE returned(s.callers[id])]]

\* The promise of a run settles and the microtasks it wakes run in their
\* order: refresh() clears refreshInFlight; after a success every
\* refreshCatalog waiting on the run rebuilds the index; then every
\* ensureReady waiting on it returns, and the search follows, or throws.
Settle(s, run, ok) ==
  LET waiting == {id \in DOMAIN s.callers : s.callers[id].run = run}
      rebuilds == \E id \in waiting : s.callers[id].who \in {"startup", "ticker"}
      tools == {id \in DOMAIN s.callers :
                  id \notin waiting \/ s.callers[id].who \in {"search", "execute"}}
      rebuilt == [s EXCEPT
                    !.index = IF ok /\ rebuilds /\ s.operations # {}
                                THEN s.operations ELSE @,
                    !.refreshInFlight = NoRun,
                    !.runs = MapDelete(@, {run})]
      returned(caller) ==
        [caller EXCEPT !.pc = IF ok THEN "ready" ELSE "failed",
                       !.via = [conditional |-> s.runs[run].conditional,
                                force |-> s.runs[run].force]]
  IN [rebuilt EXCEPT
        !.callers =
          [id \in tools |->
             IF id \notin waiting THEN s.callers[id]
             ELSE IF ok /\ s.callers[id].who = "search"
               THEN search(rebuilt, returned(s.callers[id]))
             ELSE returned(s.callers[id])]]

\* refreshInternal from the response on, without the throw on a status that
\* is not OK: the run goes on to the documentation and the cache file.
OnSchemaResponseNoThrow(s, run, response) ==
  IF response.status = 304
    THEN IF s.operations = {}
           THEN [s EXCEPT !.runs[run].force = TRUE,
                          !.runs[run].pc = "bootstrap"]
           ELSE [s EXCEPT !.runs[run].pc = "docs"]
  ELSE IF response.status # 200
    THEN [s EXCEPT !.runs[run].pc = "docs"]
  ELSE LET tagged == [s EXCEPT !.etag = IF response.etag = Null
                                          THEN @ ELSE response.etag]
       IN IF ~response.json
            THEN Settle(tagged, run, FALSE)
            ELSE [tagged EXCEPT
                    !.operationById = [id \in response.operations |-> id],
                    !.operations = response.operations,
                    !.rootSchema = RootSchemaOf(response.operations),
                    !.runs[run].catalogChanged = TRUE,
                    !.runs[run].pc = "docs"]

\* refreshInternal whose refetch on a 304 without a catalog passes its own
\* force on.
OnSchemaResponseRefetchAsCalled(s, run, response) ==
  IF response.status = 304
    THEN IF s.operations = {}
           THEN [s EXCEPT !.runs[run].pc = "bootstrap"]
           ELSE [s EXCEPT !.runs[run].pc = "docs"]
  ELSE IF response.status # 200
    THEN Settle(s, run, FALSE)
  ELSE LET tagged == [s EXCEPT !.etag = IF response.etag = Null
                                          THEN @ ELSE response.etag]
       IN IF ~response.json
            THEN Settle(tagged, run, FALSE)
            ELSE [tagged EXCEPT
                    !.operationById = [id \in response.operations |-> id],
                    !.operations = response.operations,
                    !.rootSchema = RootSchemaOf(response.operations),
                    !.runs[run].catalogChanged = TRUE,
                    !.runs[run].pc = "docs"]

\* refreshInternal from the response of the schema GET up to its next await:
\* the refetch on a 304 without a catalog, the throw on a status that is not
\* OK or on a body that does not parse, the new catalog otherwise.
OnSchemaResponse(s, run, response) ==
  IF response.status = 304
    THEN IF s.operations = {}
           THEN [s EXCEPT !.runs[run].force = TRUE,
                          !.runs[run].pc = "bootstrap"]
           ELSE [s EXCEPT !.runs[run].pc = "docs"]
  ELSE IF response.status # 200
    THEN Settle(s, run, FALSE)
  ELSE LET tagged == [s EXCEPT !.etag = IF response.etag = Null
                                          THEN @ ELSE response.etag]
       IN IF ~response.json
            THEN Settle(tagged, run, FALSE)
            ELSE [tagged EXCEPT
                    !.operationById = [id \in response.operations |-> id],
                    !.operations = response.operations,
                    !.rootSchema = RootSchemaOf(response.operations),
                    !.runs[run].catalogChanged = TRUE,
                    !.runs[run].pc = "docs"]

\* The schema endpoint answers the GET of a run.
SchemaRespond(run, response) ==
  /\ run \in DOMAIN schemaService.runs
  /\ schemaService.runs[run].pc = "schema"
  /\ response.status = 304 => schemaService.runs[run].conditional
  /\ schemaService' = OnSchemaResponse(schemaService, run, response)
  /\ UNCHANGED <<config, components, now, executorState, oauth>>

\* refreshDocumentationContext(force) answered by docs: the service
\* afterwards and whether the context changed.  A fetch that throws leaves
\* what an error status leaves.
refreshDocumentationContext(s, force, docs) ==
  IF docs.status # 200
    THEN [changed |-> FALSE, service |-> s]
  ELSE LET tagged == [s EXCEPT !.docsEtag = IF docs.etag = Null
                                              THEN @ ELSE docs.etag]
       IN IF docs.text = s.docsContext
            THEN [changed |-> FALSE, service |-> tagged]
            ELSE [changed |-> TRUE,
                  service |-> [tagged EXCEPT !.docsContext = docs.text]]

\* persistCache: the file written unless there is no root schema.
persistCache(s) ==
  IF s.rootSchema = Undefined THEN s ELSE [s EXCEPT !.cacheFile = CachePayload(s)]

\* The documentation page answers, the cache file is written when the
\* catalog or the context changed, and the run resolves.
FinishRun(run, docs) ==
  /\ run \in DOMAIN schemaService.runs
  /\ schemaService.runs[run].pc = "docs"
  /\ LET this == schemaService.runs[run]
         force == this.force \/ this.catalogChanged
         docsRefresh == refreshDocumentationContext(schemaService, force, docs)
     IN /\ docs.status = 304 => ~force /\ schemaService.docsEtag # Undefined
        /\ schemaService' =
             Settle(IF this.catalogChanged \/ docsRefresh.changed
                      THEN persistCache(docsRefresh.service)
                      ELSE docsRefresh.service,
                    run, TRUE)
  /\ UNCHANGED <<config, components, now, executorState, oauth>>

\* The search tool call returns what it ranked.
SearchReturn(id) ==
  /\ id \in DOMAIN schemaService.callers
  /\ schemaService.callers[id].who = "search"
  /\ schemaService.callers[id].pc = "ready"
  /\ schemaService' = [schemaService EXCEPT !.callers = MapDelete(@, {id})]
  /\ UNCHANGED <<config, components, now, executorState, oauth>>

\* ensureReady threw: the tool call ends without a search.
SearchFail(id) ==
  /\ id \in DOMAIN schemaService.callers
  /\ schemaService.callers[id].who = "search"
  /\ schemaService.callers[id].pc = "failed"
  /\ schemaService' = [schemaService EXCEPT !.callers = MapDelete(@, {id})]
  /\ UNCHANGED <<config, components, now, executorState, oauth>>

(***************************************************************************)
(* The execute tool handler                                                *)
(***************************************************************************)
ErrorTaxonomy ==
  {"OPERATION_NOT_FOUND", "VALIDATION_ERROR", "SCHEMA_UNAVAILABLE",
   "WRITES_DISABLED", "WRITE_CONFIRMATION_REQUIRED", "AUTH_REQUIRED",
   "REQUEST_TIMEOUT", "REQUEST_FAILED", "HEROKU_API_ERROR"}

\* An Error that is no ToolError.
PlainError(message) == [kind |-> "thrown", message |-> message]

\* The message of a ToolError, which the executor's outcomes do not keep.
MessageOf(error) == <<"message of ", error.code>>

\* JSON.stringify({code, message, status}, null, 2), in fragments.
EnvelopeText(code, message, status) ==
  <<"{", "code", ": ", code, ",", "message", ": ">> \o message
    \o <<",", "status", ": ", ToString(status), "}">>

formatError(error) ==
  IF error.kind = "error"
    THEN EnvelopeText(error.code, MessageOf(error), error.status)
    ELSE error.message

IdleTool == [caller |-> NoRun, pc |-> "idle", result |-> None]

\* Whatever ended the refresh ensureReady waited for, it is an Error.
SchemaError == PlainError(<<"Failed to fetch Heroku schema: HTTP ", "500">>)

RefreshError == PlainError(<<"Heroku OAuth refresh failed: ", "400">>)

\* The handler is called: ensureReady.
ExecuteCall ==
  /\ tool.pc = "idle"
  /\ schemaService.main = "serving"
  /\ schemaService.refreshInFlight = NoRun => schemaService.nextRun < MaxRuns
  /\ \E id \in FreeCallerIds(schemaService) :
        /\ schemaService' = ensureReady(schemaService, id, "execute")
        /\ tool' = [IdleTool EXCEPT !.caller = id, !.pc = "ensureReady"]
  /\ UNCHANGED <<config, components, now, vendable, readCache, validatorCache, call, prev,
                 minted, replayed, oauth>>

\* ensureReady returns, and executor.execute is next, or throws, and the
\* catch block returns the error.
EnsureReadyDone ==
  /\ tool.pc = "ensureReady"
  /\ schemaService.callers[tool.caller].pc \in {"ready", "failed"}
  /\ tool' = IF schemaService.callers[tool.caller].pc = "ready"
               THEN [tool EXCEPT !.pc = "execute"]
               ELSE [tool EXCEPT
                       !.pc = "returned",
                       !.result = [isError |-> TRUE, text |-> formatError(SchemaError)]]
  /\ schemaService' = [schemaService EXCEPT !.callers = MapDelete(@, {tool.caller})]
  /\ UNCHANGED <<config, components, now, vendable, readCache, validatorCache, call, prev,
                 minted, replayed, oauth>>

\* The requests the handler passes on.
ToolRequests ==
  {ExecuteRequest(operation_id, Undefined, Undefined, body, dry_run, NoConfirm) :
     operation_id \in {<<"GET", " ", "/apps">>, <<"POST", " ", "/apps">>,
                       UnknownOperationId},
     body \in {Undefined, BodyNR}, dry_run \in BOOLEAN}

ToolExecute ==
  /\ tool.pc = "execute"
  /\ \E input \in ToolRequests : Begin(input, <<"u1">>)

\* deps.getAccessToken rejects: the refresh_token grant was refused.
VendThrows ==
  /\ call.pc = "vend"
  /\ call' = Done(RefreshError)
  /\ UNCHANGED <<config, components, services, minted, replayed, now, vendable, readCache,
                 validatorCache, prev>>

\* execute has resolved or rejected: the handler returns.
ToolReturn ==
  /\ tool.pc = "execute"
  /\ call.pc = "done"
  /\ tool' = [tool EXCEPT
       !.pc = "returned",
       !.result = IF call.outcome.kind = "ok"
                    THEN [isError |-> FALSE, text |-> <<"result">>]
                    ELSE [isError |-> TRUE, text |-> formatError(call.outcome)]]
  /\ call' = IdleCall
  /\ UNCHANGED <<config, components, now, vendable, readCache, validatorCache, prev,
                 minted, replayed, oauth, schemaService>>

\* The next tool call can come.
ToolDone ==
  /\ tool.pc = "returned"
  /\ tool' = IdleTool
  /\ UNCHANGED <<config, components, now, vendable, readCache, validatorCache, call, prev,
                 minted, replayed, oauth, schemaService>>

(***************************************************************************)
(* The schema normalizer (normalizeHerokuSchema).  Here a string is the    *)
(* sequence of its characters; a percent escape of an encoded reference    *)
(* ("%23", "%2F") is one element.                                          *)
(***************************************************************************)
LowerCase == <<"a", "b", "c", "d", "e", "f", "g", "h", "i", "j", "k", "l", "m",
               "n", "o", "p", "q", "r", "s", "t", "u", "v", "w", "x", "y", "z">>
UpperCase == <<"A", "B", "C", "D", "E", "F", "G", "H", "I", "J", "K", "L", "M",
               "N", "O", "P", "Q", "R", "S", "T", "U", "V", "W", "X", "Y", "Z">>
DigitChars == <<"0", "1", "2", "3", "4", "5", "6", "7", "8", "9">>

Range(s) == { s[i] : i \in DOMAIN s }

\* A value that is not a string (undefined, say), unequal to every string.
NoString == <<"undefined">>

\* [a-z0-9]
IsAlnum(c) == c \in Range(LowerCase) \cup Range(DigitChars)

\* String.prototype.toLowerCase and toUpperCase.
toLowerCase(s) ==
  [i \in DOMAIN s |->
     IF s[i] \in Range(UpperCase)
       THEN LowerCase[CHOOSE j \in DOMAIN UpperCase : UpperCase[j] = s[i]]
       ELSE s[i]]

toUpperCase(s) ==
  [i \in DOMAIN s |->
     IF s[i] \in Range(LowerCase)
       THEN UpperCase[CHOOSE j \in DOMAIN LowerCase : LowerCase[j] = s[i]]
       ELSE s[i]]

\* The decimal digits of a template literal's ${index}.
RECURSIVE Decimal(_)
Decimal(n) ==
  IF n < 10 THEN <<DigitChars[n + 1]>>
  ELSE Decimal(n \div 10) \o <<DigitChars[(n % 10) + 1]>>

\* replace(/[^a-z0-9]+/g, "_"): every run of other characters becomes "_".
RECURSIVE ReplaceRuns(_, _)
ReplaceRuns(s, inRun) ==
  IF s = << >> THEN << >>
  ELSE IF IsAlnum(Head(s)) THEN <<Head(s)>> \o ReplaceRuns(Tail(s), FALSE)
  ELSE IF inRun THEN ReplaceRuns(Tail(s), TRUE)
  ELSE <<"_">> \o ReplaceRuns(Tail(s), TRUE)

\* replace(/^_+|_+$/g, "")
RECURSIVE StripUnderscores(_)
StripUnderscores(s) ==
  IF s = << >> THEN << >>
  ELSE IF Head(s) = "_" THEN StripUnderscores(Tail(s))
  ELSE IF s[Len(s)] = "_" THEN StripUnderscores(SubSeq(s, 1, Len(s) - 1))
  ELSE s

\* sanitizeParamName from the stripped text on: the fallback for an empty
\* name, the prefix for one that starts with a digit.
OrFallback(stripped, fallbackIndex) ==
  IF stripped = << >>
    THEN <<"p", "a", "r", "a", "m", "_">> \o Decimal(fallbackIndex)
    ELSE stripped

PrefixDigit(sanitized) ==
  IF sanitized[1] \in Range(DigitChars) THEN <<"p", "_">> \o sanitized ELSE sanitized

sanitizeParamName(value, fallbackIndex) ==
  PrefixDigit(OrFallback(StripUnderscores(ReplaceRuns(toLowerCase(value), FALSE)),
                         fallbackIndex))

\* String.prototype.split(separator).filter(Boolean): the non-empty pieces
\* between separators.
RECURSIVE SplitNonEmpty(_, _, _)
SplitNonEmpty(s, separator, piece) ==
  IF s = << >> THEN (IF piece = << >> THEN << >> ELSE <<piece>>)
  ELSE IF Head(s) = separator
    THEN (IF piece = << >> THEN << >> ELSE <<piece>>)
         \o SplitNonEmpty(Tail(s), separator, << >>)
  ELSE SplitNonEmpty(Tail(s), separator, piece \o <<Head(s)>>)

DefinitionsSegment == <<"d", "e", "f", "i", "n", "i", "t", "i", "o", "n", "s">>

\* The text refToParamName sanitizes, from the parts of the reference: the
\* names after the first and the last "definitions", the name after the only
\* one, the last part, or the fallback.
RefName(parts, fallbackIndex) ==
  LET at == { i \in 1..(Len(parts) - 1) : parts[i] = DefinitionsSegment }
  IN IF Cardinality(at) >= 2
       THEN parts[(CHOOSE i \in at : \A j \in at : i <= j) + 1] \o <<"_">>
              \o parts[(CHOOSE i \in at : \A j \in at : i >= j) + 1]
     ELSE IF Cardinality(at) = 1
       THEN parts[(CHOOSE i \in at : TRUE) + 1]
     ELSE IF parts = << >>
       THEN <<"p", "a", "r", "a", "m", "_">> \o Decimal(fallbackIndex)
     ELSE parts[Len(parts)]

refToParamName(ref, fallbackIndex) ==
  sanitizeParamName(
    RefName(SplitNonEmpty(IF Len(ref) >= 2 /\ ref[1] = "#" /\ ref[2] = "/"
                            THEN SubSeq(ref, 3, Len(ref)) ELSE ref,
                          "/", << >>),
            fallbackIndex),
    fallbackIndex)

\* decodeURIComponent on the escapes that occur in the references.
decodeURIComponent(s) ==
  [i \in DOMAIN s |-> IF s[i] = "%23" THEN "#" ELSE IF s[i] = "%2F" THEN "/" ELSE s[i]]

\* The length of the match of /\{\(([^}]+)\)\}/ at the head of s, 0 when
\* there is none: "{(", characters other than "}", ")}".
EncodedMatch(s) ==
  IF Len(s) >= 5 /\ s[1] = "{" /\ s[2] = "(" /\ \E j \in 3..Len(s) : s[j] = "}"
    THEN LET close == CHOOSE j \in 3..Len(s) :
                        s[j] = "}" /\ \A k \in 3..(j - 1) : s[k] # "}"
         IN IF close >= 5 /\ s[close - 1] = ")" THEN close ELSE 0
    ELSE 0

\* The length of the match of /\{([^{}]+)\}/ at the head of s, 0 when there
\* is none.
PlainMatch(s) ==
  IF Len(s) >= 3 /\ s[1] = "{" /\ \E j \in 2..Len(s) : s[j] \in {"{", "}"}
    THEN LET stop == CHOOSE j \in 2..Len(s) :
                       s[j] \in {"{", "}"} /\ \A k \in 2..(j - 1) : s[k] \notin {"{", "}"}
         IN IF stop >= 3 /\ s[stop] = "}" THEN stop ELSE 0
    ELSE 0

\* while (usedNames.has(name)) name = `${name}_${placeholderIndex}`
RECURSIVE SuffixUntilUnused(_, _, _)
SuffixUntilUnused(name, usedNames, placeholderIndex) ==
  IF name \in usedNames
    THEN SuffixUntilUnused(name \o <<"_">> \o Decimal(placeholderIndex),
                           usedNames, placeholderIndex)
    ELSE name

Braced(name) == <<"{">> \o name \o <<"}">>

\* The replacer of the first replace, for the reference decoded: the name is
\* suffixed until unused, and the parameter is pushed.
PushRef(acc, decoded, name) ==
  [out              |-> acc.out \o Braced(name),
   pathParams       |-> Append(acc.pathParams, [name |-> name, sourceRef |-> decoded]),
   placeholderIndex |-> acc.placeholderIndex + 1,
   usedNames        |-> acc.usedNames \cup {name}]

ReplaceRef(acc, decoded) ==
  PushRef(acc, decoded,
          SuffixUntilUnused(refToParamName(decoded, acc.placeholderIndex),
                            acc.usedNames, acc.placeholderIndex))

\* The first replace of normalizeHrefToPath: every encoded reference becomes
\* a named placeholder.  acc carries the output so far, pathParams,
\* usedNames and placeholderIndex.
RECURSIVE DecodeRefs(_, _)
DecodeRefs(s, acc) ==
  IF s = << >> THEN acc
  ELSE IF EncodedMatch(s) = 0
    THEN DecodeRefs(Tail(s), [acc EXCEPT !.out = @ \o <<Head(s)>>])
  ELSE DecodeRefs(SubSeq(s, EncodedMatch(s) + 1, Len(s)),
                  ReplaceRef(acc, decodeURIComponent(SubSeq(s, 3, EncodedMatch(s) - 2))))

\* The replacer of the second replace, for the name sanitized: a name seen
\* before is not added to pathParams again.
ReplacePlain(acc, name) ==
  [out              |-> acc.out \o Braced(name),
   pathParams       |-> IF name \in acc.usedNames
                          THEN acc.pathParams
                          ELSE Append(acc.pathParams,
                                      [name |-> name, sourceRef |-> NoString]),
   placeholderIndex |-> acc.placeholderIndex + 1,
   usedNames        |-> acc.usedNames \cup {name}]

\* The second replace: every {name} is sanitized.
RECURSIVE SanitizePlain(_, _)
SanitizePlain(s, acc) ==
  IF s = << >> THEN acc
  ELSE IF PlainMatch(s) = 0
    THEN SanitizePlain(Tail(s), [acc EXCEPT !.out = @ \o <<Head(s)>>])
  ELSE IF s[2] = "(" /\ s[PlainMatch(s) - 1] = ")"
    THEN SanitizePlain(SubSeq(s, PlainMatch(s) + 1, Len(s)),
                       [acc EXCEPT !.out = @ \o SubSeq(s, 1, PlainMatch(s))])
  ELSE SanitizePlain(SubSeq(s, PlainMatch(s) + 1, Len(s)),
                     ReplacePlain(acc, sanitizeParamName(SubSeq(s, 2, PlainMatch(s) - 1),
                                                         acc.placeholderIndex)))

\* The second replace run on the output of the first.
SanitizeDecoded(withDecodedRefs) ==
  SanitizePlain(withDecodedRefs.out, [withDecodedRefs EXCEPT !.out = << >>])

PathOf(normalized) ==
  [pathParams |-> normalized.pathParams, pathTemplate |-> normalized.out]

\* normalizeHrefToPath for a relative href (the hrefs of the Heroku schema
\* are paths; an href that starts with "http" is not among the inputs).
normalizeHrefToPath(rawHref) ==
  PathOf(SanitizeDecoded(DecodeRefs(rawHref, [out |-> << >>, pathParams |-> << >>,
                                              placeholderIndex |-> 0, usedNames |-> {}])))

\* coerceMethod as it would be without toUpperCase.
coerceMethodAsWritten(value) == IF value = NoString THEN <<"G", "E", "T">> ELSE value

coerceMethod(value) == toUpperCase(IF value = NoString THEN <<"G", "E", "T">> ELSE value)

\* String.prototype.trim on the texts of the model, whose only white space
\* is the space.
RECURSIVE Trim(_)
Trim(s) ==
  IF s = << >> THEN << >>
  ELSE IF Head(s) = " " THEN Trim(Tail(s))
  ELSE IF s[Len(s)] = " " THEN Trim(SubSeq(s, 1, Len(s) - 1))
  ELSE s

\* Array.prototype.join
RECURSIVE JoinWith(_, _)
JoinWith(parts, separator) ==
  IF parts = << >> THEN << >>
  ELSE IF Len(parts) = 1 THEN parts[1]
  ELSE parts[1] \o separator \o JoinWith(Tail(parts), separator)

\* Array.prototype.filter(Boolean) on strings: the non-empty ones.
NonEmptyOnly(parts) == SelectSeq(parts, LAMBDA part : part # << >>)

\* typeof value === "string" ? value : ""
StringOrEmpty(value) == IF value = NoString THEN << >> ELSE value

operationSummary(link) ==
  JoinWith(NonEmptyOnly(<<Trim(StringOrEmpty(link.title)),
                          Trim(StringOrEmpty(link.description)),
                          Trim(StringOrEmpty(link.rel))>>),
           <<" ", "-", " ">>)

\* The strings of link.schema.required, each prefixed with "body.".
bodyRequired(link) ==
  IF link.schema = None \/ link.schema.required.t # "array" THEN << >>
  ELSE LET strings == SelectSeq(link.schema.required.e, LAMBDA item : item.t = "string")
       IN [i \in DOMAIN strings |-> <<"b", "o", "d", "y", ".">> \o strings[i].v]

\* FirstSeen as it would be if Array.from(new Set(...)) kept duplicates.
FirstSeenKeepsDuplicates(items) == items

\* Array.from(new Set(items)): the first occurrence of each item, in order.
RECURSIVE FirstSeen(_)
FirstSeen(items) ==
  IF items = << >> THEN << >>
  ELSE LET front == FirstSeen(SubSeq(items, 1, Len(items) - 1))
           item  == items[Len(items)]
       IN IF item \in Range(front) THEN front ELSE Append(front, item)

\* The operation record of a link, from its method, path, required
\* parameters and summary (lines 238-253).
OperationRecord(definitionName, link, method, path, requiredParams, summary) ==
  [definitionName  |-> definitionName,
   description     |-> IF summary # << >> THEN summary ELSE NoString,
   isMutating      |-> method \notin {<<"G", "E", "T">>, <<"H", "E", "A", "D">>},
   method          |-> method,
   operationId     |-> method \o <<" ">> \o path.pathTemplate,
   pathParams      |-> path.pathParams,
   pathTemplate    |-> path.pathTemplate,
   rawHref         |-> link.href,
   rel             |-> link.rel,
   requestSchema   |-> link.schema,
   requiredParams  |-> requiredParams,
   searchText      |->
     toLowerCase(JoinWith(<<definitionName, method, path.pathTemplate,
                            StringOrEmpty(link.rel), StringOrEmpty(link.title),
                            StringOrEmpty(link.description)>> \o requiredParams,
                          <<" ">>)),
   targetSchemaRef |-> link.targetSchema,
   title           |-> link.title]

\* requiredParams: the names of the path parameters, then the body's.
RequiredParams(path, link) ==
  [i \in DOMAIN path.pathParams |-> path.pathParams[i].name] \o bodyRequired(link)

OperationOfPath(definitionName, link, method, path) ==
  OperationRecord(definitionName, link, method, path, RequiredParams(path, link),
                  operationSummary(link))

\* The operation made of one link (lines 198-222 and 238-253).
NewOperation(definitionName, link) ==
  OperationOfPath(definitionName, link, coerceMethod(link.method),
                  normalizeHrefToPath(link.href))

\* NormalizeLink as it would be if a repeated key were added again.
NormalizeLinkNoMerge(deduped, definitionName, link) ==
  IF link.href = NoString THEN deduped
  ELSE Append(deduped, NewOperation(definitionName, link))

\* Lines 223-255: an operation whose key is in the Map already is merged
\* into the existing one, and any other is added.  deduped is the Map's
\* values in insertion order.
MergeOperation(deduped, operation) ==
  LET existing == { i \in DOMAIN deduped : deduped[i].operationId = operation.operationId }
  IN IF existing # {}
       THEN LET i == CHOOSE j \in existing : TRUE
                mergedSummary ==
                  Trim(JoinWith(NonEmptyOnly(<<StringOrEmpty(deduped[i].description),
                                               StringOrEmpty(operation.description)>>),
                                <<" ">>))
            IN [deduped EXCEPT
                  ![i].description = IF mergedSummary # << >> THEN mergedSummary ELSE @,
                  ![i].requiredParams = FirstSeen(@ \o operation.requiredParams),
                  ![i].searchText = @ \o <<" ">> \o operation.searchText]
       ELSE Append(deduped, operation)

\* One iteration of the inner loop of normalizeHerokuSchema (lines 192-256):
\* deduped after the link of the named definition has been seen.
NormalizeLink(deduped, definitionName, link) ==
  IF link.href = NoString THEN deduped
  ELSE MergeOperation(deduped, NewOperation(definitionName, link))

RECURSIVE NormalizeLinks(_, _, _)
NormalizeLinks(deduped, definitionName, links) ==
  IF links = << >> THEN deduped
  ELSE NormalizeLinks(NormalizeLink(deduped, definitionName, Head(links)),
                      definitionName, Tail(links))

\* The outer loop (lines 187-257) over Object.entries(definitions); a
\* definition whose links is not an array is skipped.
RECURSIVE NormalizeDefinitions(_, _)
NormalizeDefinitions(deduped, definitions) ==
  IF definitions = << >> THEN deduped
  ELSE LET definition == Head(definitions)
       IN NormalizeDefinitions(
            IF definition.links.t # "array" THEN deduped
            ELSE NormalizeLinks(deduped, definition.definitionName, definition.links.e),
            Tail(definitions))

normalizeHerokuSchema(rootSchema) ==
  [operations |-> NormalizeDefinitions(<< >>, rootSchema.definitions),
   rootSchema |-> rootSchema]

(***************************************************************************)
(* Root schemas, and the catalog HerokuSchemaService publishes from them   *)
(***************************************************************************)
App      == <<"a", "p", "p">>
Apps     == <<"a", "p", "p", "s">>
Identity == <<"i", "d", "e", "n", "t", "i", "t", "y">>
Zone     == <<"z", "o", "n", "e">>
Name     == <<"n", "a", "m", "e">>
Region   == <<"r", "e", "g", "i", "o", "n">>

\* {(<percent-encoded JSON pointer>)} for the pointer "#/" + parts.join("/")
EncodedRef(parts) ==
  <<"{", "(", "%23">>
    \o JoinWith([i \in DOMAIN parts |-> <<"%2F">> \o parts[i]], << >>)
    \o <<")", "}">>

\* "#/definitions/app/definitions/identity", as in the Heroku schema.
AppIdentityRef == EncodedRef(<<DefinitionsSegment, App, DefinitionsSegment, Identity>>)

\* The path segments of the hrefs: literals, encoded references and plain
\* placeholders, among them names that sanitize to the same name.
PathSegments ==
  { Apps,
    AppIdentityRef,
    EncodedRef(<<Zone>>),
    Braced(<<"a", "p", "p", "_", "i", "d", "e", "n", "t", "i", "t", "y">>),
    Braced(<<"A", "p", "p", "-", "I", "d">>),
    Braced(<<"a", "p", "p", "_", "i", "d">>),
    Braced(Zone),
    Braced(<<"-">>),
    Braced(<<"1", "a">>),
    Braced(<<"p", "a", "r", "a", "m", "_", "1">>) }

Hrefs ==
  { <<"/">> \o a : a \in PathSegments }
    \cup { <<"/">> \o a \o <<"/">> \o b : a, b \in PathSegments }

\* link.method: absent, or a string in some letter case.
LinkMethods == { NoString, <<"g", "e", "t">>, <<"H", "E", "A", "D">>, <<"P", "o", "s", "t">> }

\* link.schema: absent, an object without required, or one whose required
\* array holds strings and a number.
LinkSchemas ==
  { None,
    [required |-> Undefined],
    [required |-> Arr(<<Str(Name), Num("5"), Str(Region), Str(Name)>>)] }

Link(href, method, schema, documented) ==
  [description  |-> IF documented THEN <<" ">> \o Apps \o <<" ">> ELSE NoString,
   href         |-> href,
   method       |-> method,
   rel          |-> IF documented THEN <<"s", "e", "l", "f">> ELSE NoString,
   schema       |-> schema,
   targetSchema |-> NoString,
   title        |-> IF documented THEN <<"I", "n", "f", "o">> ELSE NoString]

\* Links over every href, and links over a few hrefs (two of which collapse
\* to one template) with every method and body schema.
HrefLinks == { Link(href, NoString, None, FALSE) : href \in Hrefs }

MergingHrefs ==
  { <<"/">> \o Apps,
    <<"/">> \o Apps \o <<"/">> \o AppIdentityRef,
    <<"/">> \o Apps \o <<"/">> \o Braced(<<"A", "p", "p", "-", "I", "d", "e", "n", "t", "i", "t", "y">>),
    <<"/">> \o Braced(Zone) \o <<"/">> \o AppIdentityRef }

MergingLinks ==
  { Link(href, method, schema, documented) :
      href \in MergingHrefs, method \in LinkMethods,
      schema \in LinkSchemas, documented \in BOOLEAN }

\* The links that are put two to a definition: the first of a pair, and the
\* second.
PairedLinks ==
  { link \in MergingLinks :
      link.schema # [required |-> Undefined] /\ link.title = NoString }

SecondLinks ==
  { link \in PairedLinks : link.method \in {NoString, <<"P", "o", "s", "t">>} }

Definition(definitionName, links) == [definitionName |-> definitionName, links |-> links]

RootSchemas ==
  { [definitions |-> <<Definition(App, Arr(<<link>>))>>] : link \in HrefLinks }
    \cup { [definitions |-> <<Definition(App, Arr(<<a, b>>))>>] :
             a \in PairedLinks, b \in SecondLinks }
    \cup { [definitions |-> <<Definition(App, Arr(<<a>>)), Definition(Zone, Undefined),
                              Definition(Region, Arr(<<[a EXCEPT !.href = NoString], a>>))>>] :
             a \in MergingLinks }

\* operationById = new Map(operations.map((operation) => [operation.operationId,
\* operation])): a later entry of the same key replaces an earlier one.
OperationById(operations) ==
  [id \in { operations[i].operationId : i \in DOMAIN operations } |->
     operations[CHOOSE i \in DOMAIN operations :
                  /\ operations[i].operationId = id
                  /\ \A j \in DOMAIN operations : operations[j].operationId = id => j <= i]]

CatalogIdle ==
  [cacheFile |-> None, fetched |-> None, operationById |-> << >>,
   operations |-> << >>, pc |-> "idle", rootSchema |-> None]

\* refreshInternal on a 200 response whose body is rootSchema (lines 165-171
\* and 175): normalize, publish operations and operationById, write the
\* cache file.
PublishFetched ==
  /\ catalog.pc = "fetched"
  /\ LET normalized == normalizeHerokuSchema(catalog.fetched)
     IN catalog' =
          [catalog EXCEPT !.operations = normalized.operations,
                          !.rootSchema = normalized.rootSchema,
                          !.operationById = OperationById(normalized.operations),
                          !.cacheFile = [operations |-> normalized.operations,
                                         rootSchema |-> normalized.rootSchema],
                          !.pc = "published"]
  /\ UNCHANGED <<config, now, executorState, oauth, schemaService, searchIndex, store>>

\* A later process: bootstrapFromCache (lines 80-84) publishes what the cache
\* file holds.
bootstrapFromCache ==
  /\ catalog.pc = "published"
  /\ catalog' =
       [catalog EXCEPT !.operations = catalog.cacheFile.operations,
                       !.rootSchema = catalog.cacheFile.rootSchema,
                       !.operationById = OperationById(catalog.cacheFile.operations),
                       !.fetched = None,
                       !.pc = "bootstrapped"]
  /\ UNCHANGED <<config, now, executorState, oauth, schemaService, searchIndex, store>>

\* HerokuSchemaService.getOperation on the published catalog.
getPublishedOperation(operationId) ==
  IF operationId \in DOMAIN catalog.operationById
    THEN catalog.operationById[operationId]
    ELSE None

(***************************************************************************)
(* EncryptedTokenStore (token-store.ts): calls that interleave at their    *)
(* awaits                                                                  *)
(***************************************************************************)
MaxStoreCalls == 3

\* A record sealed under the store's key, and the text it opens to.
encryptString(plaintext) == [ciphertext |-> plaintext]

decryptString(encrypted) == encrypted.ciphertext

\* The store file: absent, or the map of sealed records written last.
NoFile == [contents |-> << >>, exists |-> FALSE]

FileOf(cache) == [contents |-> cache, exists |-> TRUE]

StoreFiles ==
  {NoFile, FileOf(MapSet(<< >>, <<"u2">>, encryptString(AccessToken(0))))}

\* The store after construction: an empty map, nothing loaded, no call.
\* reads counts the readFile calls, started the calls made.
StoreIdle ==
  [cache |-> << >>, calls |-> << >>, file |-> NoFile, loaded |-> FALSE,
   reads |-> 0, started |-> 0]

\* load() after readFile: the parsed file, or {} for a file that is absent,
\* is assigned to the map whatever the map holds.
LoadedMap(s, contents) ==
  IF contents.exists THEN contents.contents ELSE << >>

\* get, set or delete is called: load() returns at once from a loaded store
\* and awaits mkdir otherwise.  seen keeps the calls that were over when
\* this one was made.
StoreCall(op, userId) ==
  /\ store.started < MaxStoreCalls
  /\ store' = [store EXCEPT
       !.calls = MapSet(@, store.started + 1,
                        [contents |-> NoFile, op |-> op,
                         pc |-> IF store.loaded THEN "act" ELSE "mkdir",
                         result |-> None,
                         seen |-> { id \in DOMAIN store.calls :
                                      store.calls[id].pc = "done" },
                         snapshot |-> << >>,
                         token |-> AccessToken(store.started + 1),
                         userId |-> userId]),
       !.started = @ + 1]
  /\ UNCHANGED <<config, now, executorState, oauth, schemaService, catalog, searchIndex>>

\* load(): mkdir has resolved and readFile reads the file.
StoreReadFile(id) ==
  /\ id \in DOMAIN store.calls
  /\ store.calls[id].pc = "mkdir"
  /\ store' = [store EXCEPT !.calls[id].contents = store.file,
                            !.calls[id].pc = "read",
                            !.reads = @ + 1]
  /\ UNCHANGED <<config, now, executorState, oauth, schemaService, catalog, searchIndex>>

\* load(): readFile has resolved; the map is assigned and loaded is set.
StoreLoaded(id) ==
  /\ id \in DOMAIN store.calls
  /\ store.calls[id].pc = "read"
  /\ store' = [store EXCEPT
       !.cache = LoadedMap(store, store.calls[id].contents),
       !.calls[id].pc = "act",
       !.loaded = TRUE]
  /\ UNCHANGED <<config, now, executorState, oauth, schemaService, catalog, searchIndex>>

\* The call runs on from its await of load(): get returns the record or
\* null; set and delete change the map and go on to persist().
StoreAct(id) ==
  /\ id \in DOMAIN store.calls
  /\ store.calls[id].pc = "act"
  /\ LET this == store.calls[id]
     IN store' =
          IF this.op = "get"
            THEN [store EXCEPT
                    !.calls[id].pc = "done",
                    !.calls[id].result =
                      IF this.userId \in DOMAIN store.cache
                        THEN decryptString(store.cache[this.userId])
                        ELSE Null]
          ELSE IF this.op = "set"
            THEN [store EXCEPT
                    !.cache = MapSet(@, this.userId, encryptString(this.token)),
                    !.calls[id].pc = "persist"]
          ELSE [store EXCEPT
                  !.cache = MapDelete(@, {this.userId}),
                  !.calls[id].pc = "persist"]
  /\ UNCHANGED <<config, now, executorState, oauth, schemaService, catalog, searchIndex>>

\* persist(): mkdir has resolved and writeFile is given the whole map.
StoreWriteFile(id) ==
  /\ id \in DOMAIN store.calls
  /\ store.calls[id].pc = "persist"
  /\ store' = [store EXCEPT !.calls[id].pc = "write",
                            !.calls[id].snapshot = store.cache]
  /\ UNCHANGED <<config, now, executorState, oauth, schemaService, catalog, searchIndex>>

\* writeFile has written the file and the call resolves.
StoreWritten(id) ==
  /\ id \in DOMAIN store.calls
  /\ store.calls[id].pc = "write"
  /\ store' = [store EXCEPT !.calls[id].pc = "done",
                            !.file = FileOf(store.calls[id].snapshot)]
  /\ UNCHANGED <<config, now, executorState, oauth, schemaService, catalog, searchIndex>>


(***************************************************************************)
(* SearchIndex (search-index.ts).  A score is an integer number of         *)
(* millionths until toFixed(4) rounds it to ten-thousandths.               *)
(***************************************************************************)
\* split(/[^a-z0-9_]+/): the maximal runs of [a-z0-9_], in order.
IsWordChar(c) == IsAlnum(c) \/ c = "_"

WordRuns(s) ==
  LET starts == { i \in DOMAIN s : IsWordChar(s[i]) /\ (i = 1 \/ ~IsWordChar(s[i - 1])) }
      EndOf(i) == CHOOSE j \in i..Len(s) :
                    /\ \A k \in i..j : IsWordChar(s[k])
                    /\ (j = Len(s) \/ ~IsWordChar(s[j + 1]))
      Nth(n) == CHOOSE i \in starts : Cardinality({ j \in starts : j < i }) = n - 1
  IN [n \in 1..Cardinality(starts) |-> SubSeq(s, Nth(n), EndOf(Nth(n)))]

\* tokenize: the runs of the lower-cased text that are longer than one
\* character.
tokenize(value) == SelectSeq(WordRuns(toLowerCase(value)), LAMBDA token : Len(token) > 1)

\* countTerms(tokens).get(term) ?? 0
TermFrequency(tokens, term) == Cardinality({ i \in DOMAIN tokens : tokens[i] = term })

\* String.prototype.includes
Includes(text, part) ==
  \E i \in 1..(Len(text) - Len(part) + 1) : SubSeq(text, i, i + Len(part) - 1) = part

\* One row of SearchIndex.indexed (lines 43-78).
IndexedOperation(operation) ==
  LET tokens == tokenize(JoinWith(<<operation.operationId, StringOrEmpty(operation.title),
                                     StringOrEmpty(operation.description), operation.searchText,
                                     operation.pathTemplate, operation.method,
                                     operation.definitionName>>, <<" ">>))
      frequencies == { TermFrequency(tokens, term) : term \in Range(tokens) } \cup {1}
  IN [haystack |-> toLowerCase(JoinWith(<<operation.operationId, operation.pathTemplate,
                                          StringOrEmpty(operation.title),
                                          StringOrEmpty(operation.description),
                                          StringOrEmpty(operation.rel)>>, <<" ">>)),
      maxTermFrequency |-> CHOOSE f \in frequencies : \A g \in frequencies : g <= f,
      operation |-> operation,
      tokens |-> tokens]

\* Math.log(n) in millionths, for the n that 1 + docCount and 1 + frequency
\* take.
LnMillionths ==
  <<0, 693147, 1098612, 1386294, 1609438, 1791759, 1945910, 2079442, 2197225,
    2302585, 2397895, 2484907, 2564949, 2639057, 2708050, 2772589, 2833213,
    2890372, 2944439, 2995732, 3044522, 3091042, 3135494, 3178054, 3218876,
    3258097, 3295837, 3332205, 3367296, 3401197>>

\* setOperations (lines 41-94): the rows, the lower-cased docs context, and
\* docCount, from which the inverse document frequencies follow.
setOperations(operations, docsContext) ==
  [docsContext |-> toLowerCase(docsContext),
   indexed     |-> [i \in DOMAIN operations |-> IndexedOperation(operations[i])]]

\* inverseDocumentFrequency.get(term) ?? 1, in millionths:
\* Math.log((1 + docCount) / (1 + frequency)) + 1
InverseDocumentFrequency(index, term) ==
  LET docCount  == Max(Len(index.indexed), 1)
      frequency == Cardinality({ i \in DOMAIN index.indexed :
                                   term \in Range(index.indexed[i].tokens) })
  IN IF frequency = 0 THEN 1000000
     ELSE LnMillionths[1 + docCount] - LnMillionths[1 + frequency] + 1000000

\* The sum of the loop of lines 123-129 over the query tokens.
RECURSIVE TermScore(_, _, _)
TermScore(index, row, queryTokens) ==
  IF queryTokens = << >> THEN 0
  ELSE LET tf == TermFrequency(row.tokens, Head(queryTokens))
       IN (IF tf > 0
             THEN (tf * InverseDocumentFrequency(index, Head(queryTokens)))
                    \div row.maxTermFrequency
             ELSE 0)
          + TermScore(index, row, Tail(queryTokens))

\* Number(score.toFixed(4)), in ten-thousandths.
ToFixed4(millionths) == (millionths + 50) \div 100

\* The result item of one row (lines 120-163).
ScoreRow(index, row, query) ==
  LET operation   == row.operation
      queryTokens == tokenize(query)
      queryLower  == toLowerCase(query)
      score ==
        TermScore(index, row, queryTokens)
        + (IF Includes(row.haystack, queryLower) THEN 6000000 ELSE 0)
        + (IF Includes(operation.pathTemplate, queryLower) THEN 3000000 ELSE 0)
        + (IF Includes(toLowerCase(StringOrEmpty(operation.title)), queryLower) THEN 2000000 ELSE 0)
        + (IF toLowerCase(operation.method) \in Range(queryTokens) THEN 1000000 ELSE 0)
        + (IF /\ index.docsContext # << >>
              /\ \E i \in DOMAIN queryTokens : Includes(index.docsContext, queryTokens[i])
             THEN 250000 ELSE 0)
  IN [is_mutating     |-> operation.isMutating,
      method          |-> operation.method,
      operation_id    |-> operation.operationId,
      path            |-> operation.pathTemplate,
      required_params |-> operation.requiredParams,
      score           |-> ToFixed4(score),
      summary         |-> IF operation.description # NoString THEN operation.description
                          ELSE IF operation.title # NoString THEN operation.title
                          ELSE operation.method \o <<" ">> \o operation.pathTemplate]

\* Array.prototype.sort((a, b) => b.score - a.score): a stable sort, highest
\* score first.
RECURSIVE SortByScore(_)
SortByScore(items) ==
  IF items = << >> THEN << >>
  ELSE LET best == CHOOSE i \in DOMAIN items :
                     /\ \A j \in DOMAIN items : items[j].score <= items[i].score
                     /\ \A j \in 1..(i - 1) : items[j].score < items[i].score
       IN <<items[best]>>
          \o SortByScore(SubSeq(items, 1, best - 1) \o SubSeq(items, best + 1, Len(items)))

Min(a, b) == IF a <= b THEN a ELSE b

\* SearchLimit as it would be without the upper bound.
SearchLimitUncapped(limit) == Max(1, IF limit = Undefined THEN 8 ELSE limit.v)

\* Math.max(1, Math.min(options.limit ?? 8, 25)); the limit is Undefined or
\* Num(n).
SearchLimit(limit) == Max(1, Min(IF limit = Undefined THEN 8 ELSE limit.v, 25))

\* The row passes the resource filter (lines 109-119).
PassesFilter(row, resourceFilter) ==
  \/ resourceFilter = << >>
  \/ LET matchSet == toLowerCase(JoinWith(<<row.operation.definitionName,
                                            row.operation.pathTemplate,
                                            row.operation.operationId>>, <<" ">>))
     IN \E i \in DOMAIN resourceFilter : Includes(matchSet, toLowerCase(resourceFilter[i]))

\* SearchIndex.search (lines 96-172).
SearchIndexSearch(index, options) ==
  LET query == Trim(options.query)
      limit == SearchLimit(options.limit)
  IN IF query = << >> THEN << >>
     ELSE LET rows   == SelectSeq(index.indexed,
                                  LAMBDA row : PassesFilter(row, options.resourceFilter))
              scored == [i \in DOMAIN rows |-> ScoreRow(index, rows[i], query)]
              sorted == SortByScore(SelectSeq(scored, LAMBDA result : result.score > 0))
          IN SubSeq(sorted, 1, Min(limit, Len(sorted)))

\* The catalogs that are indexed: the three operations of the app
\* definition, documented, and a catalog of CatalogSize operations
\* GET /apps/<n>.
CatalogSize == 27

AppCatalog ==
  normalizeHerokuSchema(
    [definitions |->
       <<Definition(App, Arr(<<
           [Link(<<"/">> \o Apps, <<"G", "E", "T">>, None, TRUE)
              EXCEPT !.title = <<"L", "i", "s", "t">>, !.rel = <<"i", "n", "s", "t", "a", "n", "c", "e", "s">>],
           Link(<<"/">> \o Apps \o <<"/">> \o AppIdentityRef, <<"G", "E", "T">>, None, TRUE),
           Link(<<"/">> \o Apps, <<"P", "O", "S", "T">>,
                [required |-> Arr(<<Str(Name)>>)], FALSE)>>))>>]).operations

NumberedCatalog ==
  [i \in 1..CatalogSize |->
     NewOperation(App, Link(<<"/">> \o Apps \o <<"/">> \o Decimal(i), NoString, None, FALSE))]

SearchQueries ==
  { << >>, <<" ", " ">>, Apps, <<" ">> \o Apps \o <<" ">>,
    <<"L", "i", "s", "t", " ">> \o Apps,
    <<"p", "o", "s", "t">>, <<"z", "z">>, <<"1">>, <<"a">>,
    Apps \o <<" ", "1", "2">>, <<"/">> \o Apps \o <<"/", "2">>, Identity }

SearchLimits == { Undefined, Num(-1), Num(0), Num(1), Num(2), Num(9), Num(25), Num(30) }

ResourceFilters == { << >>, <<<<"A", "P", "P">>>>, <<Zone, <<"/", "2">>>> }

DocsContexts == { << >>, <<"H", "e", "r", "o", "k", "u", " ", "A", "p", "p", "s">> }

SearchIdle ==
  [docsContext |-> << >>, index |-> None, operations |-> << >>, options |-> None,
   pc |-> "idle", results |-> << >>]

\* main's searchIndex.setOperations(schemaService.getOperations(),
\* schemaService.getDocsContext()).
SetOperations ==
  /\ searchIndex.pc = "loaded"
  /\ searchIndex' = [searchIndex EXCEPT
                       !.index = setOperations(searchIndex.operations, searchIndex.docsContext),
                       !.pc = "indexed"]
  /\ UNCHANGED <<config, now, executorState, oauth, schemaService, catalog, store>>

\* One call of SearchIndex.search with the options drawn at the start.
Search ==
  /\ searchIndex.pc = "indexed"
  /\ searchIndex' = [searchIndex EXCEPT
                       !.results = SearchIndexSearch(searchIndex.index, searchIndex.options),
                       !.pc = "searched"]
  /\ UNCHANGED <<config, now, executorState, oauth, schemaService, catalog, store>>

(***************************************************************************)
(* The bypass scenario: reads and confirmed writes with the read cache on  *)
(* or off                                                                  *)
(***************************************************************************)
\* A valid request on each operation of the catalog, as a dry run or not,
\* with the confirmation token of its dry run or with none.
BypassRequests(userId) ==
  UNION { { ExecuteRequest(shape.operation_id, shape.path_params, Undefined, shape.body,
                           dry_run, confirm) :
              dry_run \in BOOLEAN,
              confirm \in { NoConfirm,
                            TokenFor(ExecuteRequest(shape.operation_id, shape.path_params,
                                                    Undefined, shape.body, TRUE, NoConfirm),
                                     userId) } } :
          shape \in { [body |-> Undefined, operation_id |-> <<"GET", " ", "/apps">>,
                       path_params |-> Undefined],
                      [body |-> Undefined,
                       operation_id |-> <<"HEAD", " ", "/apps/", "{app_identity}">>,
                       path_params |-> AppA],
                      [body |-> BodyN, operation_id |-> <<"POST", " ", "/apps">>,
                       path_params |-> Undefined],
                      [body |-> Undefined,
                       operation_id |-> <<"DELETE", " ", "/apps/", "{app_identity}">>,
                       path_params |-> AppA] } }

BeginBypass ==
  \E userId \in GateCallers : \E input \in BypassRequests(userId) : Begin(input, userId)

(***************************************************************************)
(* The validator scenario: the schema service publishes a catalog again    *)
(* (part_002 lines 167-171) between execute calls                          *)
(***************************************************************************)
\* link.schema of "POST /apps" once the platform also requires a region.
AppCreateStrict ==
  [required |-> {"name", "region"}, stringProps |-> {"name", "region"}, t |-> "schema"]

\* The operations a refresh publishes: those of Catalog with the given request
\* schema on "POST /apps".
PublishedOperations(requestSchema) ==
  << Operation("GET", <<"/apps">>, << >>, None),
     Operation("HEAD", <<"/apps/", "{app_identity}">>, <<"app_identity">>, None),
     Operation("POST", <<"/apps">>, << >>, requestSchema),
     Operation("DELETE", <<"/apps/", "{app_identity}">>, <<"app_identity">>, None) >>

\* The request schemas and definitions the refreshed documents carry.
PublishedSchemas == {AppCreateSchema, AppCreateStrict, Ref("app-create")}
PublishedDefinitions == {Definitions(AppCreateSchema), Definitions(AppCreateStrict)}

\* refreshInternal on a 200 response (lines 167-171): rootSchema, operations
\* and operationById are replaced.  The executor is not told.
Republish(requestSchema, definitions) ==
  /\ catalog' =
       [catalog EXCEPT
          !.operationById =
             [id \in OperationIds |->
                CHOOSE op \in { PublishedOperations(requestSchema)[i] : i \in 1..4 } :
                   op.operationId = id],
          !.operations = PublishedOperations(requestSchema),
          !.pc = "replaced",
          !.rootSchema = [definitions |-> definitions]]
  /\ catalog' # catalog
  /\ UNCHANGED <<config, services, executorState, now, searchIndex, store>>

\* Dry runs of "POST /apps" and "GET /apps" with the bodies of the model.
ValidatorBodies == {Undefined, BodyN, BodyNR}
ValidatorRequests ==
  { ExecuteRequest(id, Undefined, Undefined, body, TRUE, NoConfirm) :
      id \in { <<"POST", " ", "/apps">>, <<"GET", " ", "/apps">> },
      body \in ValidatorBodies }

BeginValidated == \E input \in ValidatorRequests : Begin(input, <<"u1">>)

(***************************************************************************)
(* The full read cache: a thousand users have read "GET /apps" within the  *)
(* TTL                                                                     *)
(***************************************************************************)
\* The x-user-id of the i-th earlier caller: "v1", "v2", ...
FilledUser(i) == <<"v">> \o Decimal(i)

AppsList == CHOOSE op \in Catalog : op.operationId = <<"GET", " ", "/apps">>
AppsListEnvelope == requestEnvelope(AppsList, EmptyObj, EmptyObj)

FilledKey(i) == getReadCacheKey(1, AppsList, AppsListEnvelope, FilledUser(i))

\* The entry setReadCacheEntry stored for an earlier caller at time 0.
FilledEntry(key, ttl) ==
  [expiresAt |-> ttl,
   owner |-> SubSeq(key, 1, Len(key) - Len(FilledKey(1)) + Len(FilledUser(1))),
   response |-> cloneExecuteResponse(BuildResult(AppsListEnvelope, UpstreamResponse(200))),
   storedAt |-> 0]

\* The read cache after the first n earlier callers.
FilledCache(n, ttl) ==
  [key \in { FilledKey(i) : i \in 1..n } |-> FilledEntry(key, ttl)]

FilledSizes == {ReadCacheLimit - 1, ReadCacheLimit}

(***************************************************************************)
(* Properties                                                              *)
(***************************************************************************)
InCall == call.pc # "idle"

CallOperation == getOperation(call.input.operation_id)

\* The call in progress is on an operation whose method is not GET or HEAD.
MutatingCall ==
  InCall /\ CallOperation # None /\ CallOperation.method \notin {"GET", "HEAD"}

\* The call in progress is on an operation whose method is GET or HEAD.
ReadCall ==
  InCall /\ CallOperation # None /\ CallOperation.method \in {"GET", "HEAD"}

\* The request passes the four validation steps.
ValidRequest(input) ==
  /\ getOperation(input.operation_id) # None
  /\ validatePathParams(getOperation(input.operation_id), OrElse(input.path_params, EmptyObj))
  /\ validateQueryParams(OrElse(input.query_params, EmptyObj))
  /\ validateBody(getOperation(input.operation_id), input.body)

\* C1: an upstream request is emitted for a mutating operation only if
\* allow-writes is on and the call's confirm_write_token equals the token
\* recomputed from (user, operation, path params, query params, body); in
\* every other case no upstream request is sent.
C1_WriteGate ==
  (MutatingCall /\ call.sent > 0)
    => /\ allowWrites
       /\ call.input.confirm_write_token = TokenFor(call.input, call.userId)

\* A mutating call whose request is on its way to the upstream API.
C1_Witness == MutatingCall /\ call.pc = "fetch" /\ call.sent = 1

\* C2: a dry run that passes validation returns status 0 and empty headers
\* without any upstream request and without vending a credential; for a
\* mutating operation the body carries a non-empty confirm_write_token, and
\* a warning when allow-writes is off.
C2_DryRun ==
  (InCall /\ call.input.dry_run)
    => /\ call.sent = 0
       /\ ~call.vended
       /\ ValidRequest(call.input)
            => /\ call.pc = "done"
               /\ call.outcome.kind = "ok"
               /\ call.outcome.result.status = 0
               /\ call.outcome.result.headers = {}
               /\ MutatingCall
                    => /\ HasKey(call.outcome.result.body, "confirm_write_token")
                       /\ Get(call.outcome.result.body, "confirm_write_token").text # << >>
                       /\ ~allowWrites => call.outcome.result.warnings # << >>

\* A dry run of a mutating operation, writes disabled, caller without token.
C2_Witness ==
  /\ MutatingCall
  /\ call.input.dry_run
  /\ call.pc = "done"
  /\ call.outcome.kind = "ok"
  /\ ~allowWrites
  /\ call.userId \notin vendable

\* C4: a call on an operation whose method is not GET or HEAD sends at most
\* one upstream request, whatever the response or error and whatever
\* max_retries is.
C4_MutatingOnce == MutatingCall => call.sent <= 1

\* A mutating call that ended on a 500 although retries are configured.
C4_Witness ==
  /\ MutatingCall
  /\ call.pc = "done"
  /\ call.history = <<500>>
  /\ maxRetries >= 1

\* The checks of execute in the order of C10, each with the error it raises.
PreflightChecks(input, userId) ==
  LET operation == getOperation(input.operation_id)
      known     == operation # None
      pp        == OrElse(input.path_params, EmptyObj)
      qp        == OrElse(input.query_params, EmptyObj)
  IN << [error |-> ToolError("OPERATION_NOT_FOUND", 404),
         fails |-> ~known],
        [error |-> ToolError("VALIDATION_ERROR", 400),
         fails |-> known /\ \E i \in 1..Len(operation.pathParams) :
                               \/ ~HasKey(pp, operation.pathParams[i])
                               \/ Get(pp, operation.pathParams[i]).v = ""],
        [error |-> ToolError("VALIDATION_ERROR", 400),
         fails |-> \E i \in 1..Len(qp.e) : qp.e[i].v.t \in {"array", "object", "null"}],
        [error |-> ToolError("VALIDATION_ERROR", 400),
         fails |-> known /\ ~validateBody(operation, input.body)],
        [error |-> ToolError("WRITES_DISABLED", 403),
         fails |-> known /\ operation.method \notin {"GET", "HEAD"} /\ ~allowWrites],
        [error |-> ToolError("WRITE_CONFIRMATION_REQUIRED", 403),
         fails |-> known /\ operation.method \notin {"GET", "HEAD"}
                   /\ input.confirm_write_token # TokenFor(input, userId)] >>

\* The error of the first failing check, None when every check passes.
FirstFailure(input, userId) ==
  LET checks == PreflightChecks(input, userId)
  IN IF \E i \in 1..Len(checks) : checks[i].fails
       THEN checks[CHOOSE i \in 1..Len(checks) :
                     checks[i].fails /\ \A j \in 1..(i - 1) : ~checks[j].fails].error
       ELSE None

GateErrorCodes ==
  {"OPERATION_NOT_FOUND", "VALIDATION_ERROR", "WRITES_DISABLED",
   "WRITE_CONFIRMATION_REQUIRED", "AUTH_REQUIRED"}

C10_State ==
  (InCall /\ ~call.input.dry_run)
    => LET expected == FirstFailure(call.input, call.userId)
       IN /\ expected # None
            => call.pc = "done" /\ call.outcome = expected /\ call.sent = 0
          /\ (call.outcome.kind = "error" /\ call.outcome.code \in GateErrorCodes)
            => /\ call.sent = 0
               /\ call.outcome.code # "AUTH_REQUIRED" => call.outcome = expected
               /\ call.outcome.code = "AUTH_REQUIRED"
                    => expected = None /\ call.outcome.status = 401

\* The step on which the credential is asked for and found missing.
C10_Step ==
  (call.pc = "vend" /\ call'.pc # "vend" /\ call.userId \notin vendable)
    => call'.outcome = ToolError("AUTH_REQUIRED", 401)

\* C10: a non-dry-run execute reports the first failing check in the order
\* unknown operation, path parameter, query parameter, body, writes
\* disabled, token mismatch, no credential; none of these failures sends an
\* upstream request.
C10_CheckOrder == []C10_State /\ [][C10_Step]_vars

\* Writes are off and the call carries the right token: WRITES_DISABLED.
C10_Witness ==
  /\ MutatingCall
  /\ call.pc = "done"
  /\ call.outcome = ToolError("WRITES_DISABLED", 403)
  /\ call.input.confirm_write_token = TokenFor(call.input, call.userId)

\* Equality of JSON values: objects as sets of members, arrays in order.
RECURSIVE JsonEquiv(_, _)
JsonEquiv(a, b) ==
  IF a.t # b.t THEN FALSE
  ELSE IF a.t = "object"
    THEN /\ \A i \in 1..Len(a.e) : HasKey(b, a.e[i].k)
         /\ \A i \in 1..Len(b.e) : HasKey(a, b.e[i].k)
         /\ \A i \in 1..Len(a.e) : JsonEquiv(a.e[i].v, Get(b, a.e[i].k))
  ELSE IF a.t = "array"
    THEN /\ Len(a.e) = Len(b.e)
         /\ \A i \in 1..Len(a.e) : JsonEquiv(a.e[i], b.e[i])
  ELSE a = b

\* The request tuples of the dry run and of the replay are equal, an absent
\* path_params or query_params read as {} and an absent body as null.
SameTuple ==
  /\ minted.userId = replayed.userId
  /\ minted.input.operation_id = replayed.input.operation_id
  /\ JsonEquiv(OrElse(minted.input.path_params, EmptyObj),
               OrElse(replayed.input.path_params, EmptyObj))
  /\ JsonEquiv(OrElse(minted.input.query_params, EmptyObj),
               OrElse(replayed.input.query_params, EmptyObj))
  /\ JsonEquiv(OrElse(minted.input.body, Null), OrElse(replayed.input.body, Null))

\* C3: confirmation tokens are equal exactly when their request tuples are
\* equal, object key order aside; with allow-writes on, replaying a dry
\* run's token with the same tuple passes the write gate and replaying it
\* with another tuple fails with WRITE_CONFIRMATION_REQUIRED.
C3_TokenEquality ==
  (minted # None /\ replayed # None)
    => /\ (minted.token = TokenFor(replayed.input, replayed.userId)) <=> SameTuple
       /\ ValidRequest(replayed.input)
            => /\ SameTuple => replayed.outcome = Pending
               /\ ~SameTuple
                    => replayed.outcome = ToolError("WRITE_CONFIRMATION_REQUIRED", 403)

\* Two different tuples whose tokens are equal.
C3_Collision ==
  /\ minted # None
  /\ replayed # None
  /\ ~SameTuple
  /\ minted.token = TokenFor(replayed.input, replayed.userId)

\* The same claim for user ids and operation ids free of the "|" that
\* separates the parts of the signed payload.
NoSeparator(s) == \A i \in 1..Len(s) : s[i] # "|"

C3_TokenEqualityNoSeparator ==
  (/\ minted # None
   /\ replayed # None
   /\ NoSeparator(minted.userId) /\ NoSeparator(replayed.userId)
   /\ NoSeparator(minted.input.operation_id)
   /\ NoSeparator(replayed.input.operation_id))
    => /\ (minted.token = TokenFor(replayed.input, replayed.userId)) <=> SameTuple
       /\ ValidRequest(replayed.input)
            => /\ SameTuple => replayed.outcome = Pending
               /\ ~SameTuple
                    => replayed.outcome = ToolError("WRITE_CONFIRMATION_REQUIRED", 403)

\* The outcomes after which the claim lets a GET or HEAD be sent again.
C5RetryableAsClaimed(status) == status = Rejected \/ status = 429 \/ status \in 500..599

\* The same with every status from 500 up.
C5Retryable(status) == status = Rejected \/ status = 429 \/ status >= 500

\* The retry contract of a GET or HEAD call, for a given set of outcomes
\* after which the request is sent again.
C5RetryContract(Again(_)) ==
  ReadCall =>
    LET n == Len(call.history)
    IN /\ call.sent <= maxRetries + 1
       /\ call.sent = n + (IF call.pc = "fetch" THEN 1 ELSE 0)
       /\ \A i \in 1..n :
            (i < n \/ call.pc \in {"sleep", "fetch"}) => Again(call.history[i])
       /\ (call.pc = "done" /\ n > 0)
            => LET last == call.history[n]
               IN /\ (~Again(last) /\ last \in 200..299)
                       => /\ call.outcome.kind = "ok"
                          /\ call.outcome.result.status = last
                  /\ (~Again(last) /\ last \notin 200..299)
                       => call.outcome = ToolError("HEROKU_API_ERROR", last)
                  /\ Again(last)
                       => /\ n = maxRetries + 1
                          /\ last # Rejected
                               => call.outcome = ToolError("HEROKU_API_ERROR", last)

ServedFromCache ==
  /\ InCall
  /\ ~call.input.dry_run
  /\ call.pc = "done"
  /\ call.outcome.kind = "ok"
  /\ call.sent = 0

\* C6: a read-cache entry recorded by a call of one user is never returned
\* to a call of another user for the same operation and URL.
C6_PerUser ==
  ServedFromCache
    => /\ call.cacheKey \in DOMAIN readCache
       /\ readCache[call.cacheKey].owner = call.userId
       /\ call.outcome.result =
            [readCache[call.cacheKey].response
               EXCEPT !.warnings = @ \o <<"served_from_read_cache">>]

\* A call answered from the cache while another user's live entry for the
\* same operation and URL is in the cache.
C6_Witness ==
  /\ ServedFromCache
  /\ \E k \in DOMAIN readCache :
       /\ readCache[k].owner # call.userId
       /\ readCache[k].expiresAt > call.lookupAt
       /\ readCache[k].response.request = call.envelope

\* The key of the caller's entry for the operation and URL of the call.
CallerKey == call.userId \o <<":">> \o call.envelope.operation_id \o <<":">> \o call.envelope.url

C7_State ==
  ServedFromCache
    => /\ call.cacheKey \in DOMAIN readCache
       /\ call.lookupAt - readCache[call.cacheKey].storedAt < readCacheTtlMs

\* The step on which the cache is looked up and holds an entry of age >= TTL.
C7_Step ==
  (/\ call.pc = "vend"
   /\ call'.pc # "vend"
   /\ call.userId \in vendable
   /\ readCacheTtlMs > 0
   /\ CallerKey \in DOMAIN readCache
   /\ now - readCache[CallerKey].storedAt >= readCacheTtlMs)
    => /\ CallerKey \notin DOMAIN readCache'
       /\ call'.pc = "fetch"
       /\ call'.sent = 1

\* C7: an entry whose age has reached the TTL is never returned; the lookup
\* that finds it deletes it and the call goes to the upstream API.
C7_Expiry == []C7_State /\ [][C7_Step]_vars

\* A call sent upstream after its lookup, at least a TTL after the same
\* user's last successful read, removed the entry that read had used.
C7_Witness ==
  /\ call.pc = "fetch"
  /\ call.sent = 1
  /\ readCacheTtlMs > 0
  /\ prev # NoPrev
  /\ prev.userId = call.userId
  /\ prev.result.request = call.envelope
  /\ call.lookupAt - prev.finishedAt >= readCacheTtlMs
  /\ call.cacheKey \notin DOMAIN readCache

\* The call in progress and the call completed just before it are two
\* successful reads of the same operation and URL by the same user, the
\* second looked up within the TTL of the first's completion.
ConsecutiveReads ==
  /\ ReadCall
  /\ readCacheTtlMs > 0
  /\ call.pc = "done"
  /\ call.outcome.kind = "ok"
  /\ prev # NoPrev
  /\ prev.userId = call.userId
  /\ prev.result.request = call.envelope
  /\ call.lookupAt - prev.finishedAt < readCacheTtlMs

\* C8 as stated: two consecutive successful reads within the TTL produce
\* exactly one upstream request, and the second result is the first plus
\* the warning served_from_read_cache.
C8_OneRequestAsClaimed ==
  ConsecutiveReads
    => /\ prev.sent + call.sent = 1
       /\ call.outcome.result =
            [prev.result EXCEPT !.warnings = @ \o <<"served_from_read_cache">>]

\* C8, amended: when the first of the two was answered by the upstream API,
\* the second sends no upstream request and its result is the first plus
\* the warning served_from_read_cache.
C8_SecondFromCache ==
  (ConsecutiveReads /\ prev.sent >= 1)
    => /\ call.sent = 0
       /\ call.outcome.result =
            [prev.result EXCEPT !.warnings = @ \o <<"served_from_read_cache">>]

\* The second of two reads answered from the cache, the first having been
\* sent upstream twice.
C8_Witness == ConsecutiveReads /\ prev.sent = 2 /\ call.sent = 0

C9_State ==
  (InCall /\ call.outcome.kind = "error" /\ call.outcome.code = "AUTH_REQUIRED")
    => /\ call.outcome.status = 401
       /\ call.sent = 0
       /\ call.history = << >>

\* The step on which the credential is asked for and none can be vended.
C9_Step ==
  (call.pc = "vend" /\ call'.pc # "vend" /\ call.userId \notin vendable)
    => /\ call'.pc = "done"
       /\ call'.outcome = ToolError("AUTH_REQUIRED", 401)
       /\ call'.sent = 0
       /\ readCache' = readCache

\* C9: a non-dry-run execute for a caller without a vendable access token
\* fails with AUTH_REQUIRED (401), sends no upstream request and returns no
\* read-cache entry, even when a live entry exists for that caller,
\* operation and URL.
C9_AuthBeforeCache == []C9_State /\ [][C9_Step]_vars

\* AUTH_REQUIRED although the caller's entry is in the cache and live.
C9_Witness ==
  /\ InCall
  /\ call.outcome = ToolError("AUTH_REQUIRED", 401)
  /\ CallerKey \in DOMAIN readCache
  /\ readCache[CallerKey].expiresAt > call.finishedAt

\* C11: when the last permitted attempt ends without a response, execute
\* fails with REQUEST_TIMEOUT (504) if the attempt was aborted by the
\* timeout and with REQUEST_FAILED (502) otherwise; a GET or HEAD reaches
\* this only after max_retries + 1 attempts, another method after the first.
C11_NoResponse ==
  LET n == Len(call.history)
  IN /\ (InCall /\ call.pc = "done" /\ n > 0 /\ call.history[n] = Rejected)
          => /\ call.lastError = "AbortError"
                  => call.outcome = ToolError("REQUEST_TIMEOUT", 504)
             /\ call.lastError # "AbortError"
                  => call.outcome = ToolError("REQUEST_FAILED", 502)
             /\ n = (IF ReadCall THEN maxRetries + 1 ELSE 1)
             /\ call.sent = n
     /\ (InCall /\ call.outcome.kind = "error"
           /\ call.outcome.code \in {"REQUEST_TIMEOUT", "REQUEST_FAILED"})
          => n > 0 /\ call.history[n] = Rejected
     /\ (InCall /\ call.pc = "sleep" /\ call.history[n] = Rejected)
          => ReadCall /\ n < maxRetries + 1

\* A HEAD call that timed out on its last attempt, after a retried one.
C11_Witness ==
  /\ ReadCall
  /\ maxRetries >= 1
  /\ call.pc = "done"
  /\ call.outcome = ToolError("REQUEST_TIMEOUT", 504)
  /\ call.sent = maxRetries + 1

C12_State ==
  LET n == Len(call.history)
  IN /\ (InCall /\ call.pc = "done" /\ n > 0 /\ call.history[n] # Rejected
           /\ call.history[n] \notin 200..299)
          => call.outcome = ToolError("HEROKU_API_ERROR", call.history[n])
     /\ \A k \in DOMAIN readCache :
          /\ readCache[k].response.status \in 200..299
          /\ readCache[k].response.request.method \in {"GET", "HEAD"}

\* The step on which a call fails leaves the read cache as it was.
C12_Step ==
  (call.pc = "fetch" /\ call'.pc = "done" /\ call'.outcome.kind = "error")
    => readCache' = readCache

RECURSIVE Leaks(_)
Leaks(value) ==
  IF value.t = "object"
    THEN \E i \in 1..Len(value.e) :
           IF TestPattern({"token", "authorization", "password", "secret"}, value.e[i].k)
             THEN value.e[i].v # Str("[REDACTED]")
             ELSE Leaks(value.e[i].v)
  ELSE IF value.t = "array"
    THEN \E i \in 1..Len(value.e) : Leaks(value.e[i])
  ELSE FALSE

\* The result has no sensitive header and no unredacted sensitive body key.
Clean(result) ==
  /\ \A h \in result.headers :
       ~TestPattern({"authorization", "cookie", "set-cookie", "x-api-key"}, h[1])
  /\ ~Leaks(result.body)

\* C13 as stated: every successful execute result has no sensitive header
\* and has "[REDACTED]" at every sensitive body key, at any nesting depth.
C13_RedactedAsClaimed ==
  (InCall /\ call.pc = "done" /\ call.outcome.kind = "ok") => Clean(call.outcome.result)

\* C13, amended: the same for every successful result of a call that is not
\* a dry run (fresh or served from the read cache); the dry run of a
\* mutating operation returns its confirm_write_token unredacted.
C13_Redacted ==
  (InCall /\ call.pc = "done" /\ call.outcome.kind = "ok" /\ ~call.input.dry_run)
    => Clean(call.outcome.result)

\* A fresh result whose upstream response had a sensitive header and a
\* sensitive key below an array.
C13_Witness ==
  /\ InCall
  /\ call.pc = "done"
  /\ call.outcome.kind = "ok"
  /\ call.sent = 1
  /\ call.received.body.t = "object"
  /\ HasKey(call.received.body, "items")
  /\ Leaks(call.received.body)
  /\ \E h \in call.received.headers : h[1] = "proxy-authorization"

\* C14: a redacted body whose serialization is at most
\* EXECUTE_MAX_BODY_BYTES bytes is returned verbatim without a truncation
\* warning; otherwise the body is {truncated: true, original_size_bytes,
\* preview, preview_is_partial} with a preview of at most
\* EXECUTE_BODY_PREVIEW_CHARS characters, and a response_body_truncated
\* warning is attached.
C14_Truncation ==
  (InCall /\ call.pc = "done" /\ call.outcome.kind = "ok" /\ call.sent = 1)
    => LET redacted   == redactBody(call.received.body)
           serialized == safeSerialize(redacted)
           size       == ByteLength(serialized)
           result     == call.outcome.result
       IN IF size <= executeMaxBodyBytes
            THEN /\ result.body = redacted
                 /\ result.warnings = << >>
            ELSE /\ result.body.t = "object"
                 /\ [i \in 1..Len(result.body.e) |-> result.body.e[i].k]
                      = <<"truncated", "original_size_bytes", "preview", "preview_is_partial">>
                 /\ Get(result.body, "truncated") = [t |-> "boolean", v |-> "true"]
                 /\ Get(result.body, "original_size_bytes") = [num |-> size, t |-> "number"]
                 /\ LET preview == Get(result.body, "preview").text
                    IN /\ Len(preview) <= executeBodyPreviewChars
                       /\ Len(preview) <= Len(serialized)
                       /\ preview = SubSeq(serialized, 1, Len(preview))
                       /\ Get(result.body, "preview_is_partial").v
                            = (IF Len(preview) < Len(serialized) THEN "true" ELSE "false")
                 /\ result.warnings = <<"response_body_truncated">>

\* A body of one character and two bytes, truncated at a limit of one byte.
C14_Witness ==
  /\ InCall
  /\ call.pc = "done"
  /\ call.outcome.kind = "ok"
  /\ call.sent = 1
  /\ call.received.body = Str("é")
  /\ executeMaxBodyBytes = 1
  /\ call.outcome.result.warnings = <<"response_body_truncated">>

\* The callback was refused at the state check.
StateRefused(entry) ==
  entry.result \in {"Invalid or expired OAuth state", "OAuth state expired"}

\* C15: a callback fails at the state check when the state it presents was
\* never issued, was presented to a callback before, or is older than ten
\* minutes; no state passes the check of two callbacks; and no state that
\* a callback has been given is left in the pending ledger, whatever became
\* of that callback.
C15_OneCallback ==
  /\ \A i \in 1..Len(oauth.log) :
        LET entry == oauth.log[i]
            seen == entry.presentation
        IN /\ (~seen.issued \/ seen.presentedBefore \/ seen.age > StateMaxAgeMs)
                => StateRefused(entry)
           /\ entry.state \notin DOMAIN oauth.stateStore
  /\ \A i, j \in 1..Len(oauth.log) :
        (i # j /\ oauth.log[i].state = oauth.log[j].state)
          => (StateRefused(oauth.log[i]) \/ StateRefused(oauth.log[j]))

\* A state exactly ten minutes old was accepted and its exchange failed; the
\* same state presented again was refused.
C15_Witness ==
  /\ Len(oauth.log) = 2
  /\ oauth.log[1].state = oauth.log[2].state
  /\ oauth.log[1].presentation.age = StateMaxAgeMs
  /\ oauth.log[1].result = "Heroku OAuth token exchange failed"
  /\ oauth.log[2].result = "Invalid or expired OAuth state"

\* The stored record's expires_at parses and is at or before at + 60 s.
DueForRefresh(record, at) ==
  /\ record.expiresAt # None
  /\ DateParse(record.expiresAt) # NaN
  /\ DateParse(record.expiresAt) <= at + thresholdMs

\* The stored record has no expires_at, or at < expires_at - 60 s.
StillValid(record, at) ==
  \/ record.expiresAt = None
  \/ /\ DateParse(record.expiresAt) # NaN
     /\ at < DateParse(record.expiresAt) - thresholdMs

\* C16: a finished vending call never hands out the stored access token of
\* a record due for refresh.  With a refresh token it has asked the token
\* endpoint once and, unless the grant was refused and the call failed, it
\* returns the granted token, which the store already holds; without one it
\* returns no token and asks nothing.  A record still valid is returned as
\* it is, the token endpoint not contacted.
C16_Vending ==
  LET vend == oauth.vend
  IN (vend.pc = "done" /\ vend.record # None) =>
       /\ DueForRefresh(vend.record, vend.at) =>
            /\ vend.result # vend.record.accessToken
            /\ IF vend.record.refreshToken = None
                 THEN vend.result = Null /\ vend.calls = 0
                 ELSE /\ vend.calls = 1
                      /\ \/ vend.result.t = "error"
                         \/ /\ vend.refreshed # None
                            /\ vend.result = vend.refreshed.accessToken
                            /\ vend.userId \in DOMAIN oauth.tokenStore
                            /\ oauth.tokenStore[vend.userId] = vend.refreshed
       /\ StillValid(vend.record, vend.at) =>
            /\ vend.result = vend.record.accessToken
            /\ vend.calls = 0

\* A record expiring exactly 60 s from now was refreshed and the granted token
\* returned.
C16_Witness ==
  /\ oauth.vend.pc = "done"
  /\ oauth.vend.record # None
  /\ oauth.vend.record.expiresAt = Iso(oauth.vend.at + thresholdMs)
  /\ oauth.vend.refreshed # None
  /\ oauth.vend.result = oauth.vend.refreshed.accessToken

\* The callers waiting for a refresh to settle.
Waiting(s) == {id \in DOMAIN s.callers : s.callers[id].pc = "await"}

C17_State ==
  /\ Cardinality(DOMAIN schemaService.runs) <= 1
  /\ \A id \in Waiting(schemaService) :
        /\ schemaService.callers[id].run = schemaService.refreshInFlight
        /\ schemaService.callers[id].run \in DOMAIN schemaService.runs

C17_Step ==
  /\ C17_State'
  /\ \A id \in Waiting(schemaService') \ Waiting(schemaService) :
        schemaService.refreshInFlight # NoRun =>
          /\ schemaService'.callers[id].run = schemaService.refreshInFlight
          /\ schemaService'.runs = schemaService.runs
          /\ schemaService'.fetches = schemaService.fetches
          /\ schemaService'.nextRun = schemaService.nextRun

\* C17: never are two refreshes running; every caller that waits, the
\* ticker's, the startup's or a tool call's, waits for the one in flight;
\* and a refresh call made while one is in flight waits for that one,
\* starting no refresh and sending no schema GET.
C17_SingleFlight == [][C17_Step]_vars

\* The ticker's refresh has its schema GET out, a tool call has joined it,
\* and one GET has been sent since the startup refresh settled.
C17_Witness ==
  /\ schemaService.refreshInFlight # NoRun
  /\ schemaService.runs[schemaService.refreshInFlight].pc = "schema"
  /\ \E i, j \in Waiting(schemaService) :
        /\ schemaService.callers[i].who = "ticker"
        /\ ~schemaService.callers[i].joined
        /\ schemaService.callers[j].who = "search"
        /\ schemaService.callers[j].joined
  /\ schemaService.fetches = schemaService.nextRun

\* The search tool calls whose ensureReady has been called.
SearchCallers == {id \in DOMAIN schemaService.callers :
                    schemaService.callers[id].who = "search"}

\* What C18 says of one ensureReady call, Forced telling what is asked of
\* the refresh an ensureReady that found the catalog empty returned from.
C18Contract(Forced(_)) ==
  \A id \in SearchCallers :
    LET caller == schemaService.callers[id]
    IN /\ ~caller.empty =>
            /\ caller.run = NoRun
            /\ caller.via = None
            /\ caller.pc = "ready"
       /\ (caller.empty /\ caller.pc = "await") =>
            caller.run \in DOMAIN schemaService.runs
       /\ (caller.empty /\ caller.pc = "ready") =>
            /\ caller.via # None
            /\ caller.run \notin DOMAIN schemaService.runs
            /\ Forced(caller)

C18ForcedAsClaimed(caller) == ~caller.via.conditional

C18Forced(caller) ==
  ~caller.joined => (caller.via.force /\ ~caller.via.conditional)

C19_IndexFollowsCatalog ==
  \A id \in SearchCallers :
    schemaService.callers[id].pc = "ready" =>
      schemaService.callers[id].ranked = schemaService.callers[id].catalog

\* With no refreshCatalog in flight and none before it but the failed one
\* of the startup, an ensureReady started the refresh itself; the refresh
\* published a catalog and the search that followed ranked an empty index.
C19_StaleSearch ==
  /\ schemaService.ticks = 0
  /\ schemaService.nextRun = 2
  /\ \E id \in SearchCallers :
        /\ schemaService.callers[id].pc = "ready"
        /\ ~schemaService.callers[id].joined
        /\ schemaService.callers[id].via # None
        /\ schemaService.callers[id].catalog = {"a"}
        /\ schemaService.callers[id].ranked = {}

\* C20: whenever the execute tool returns an error result, its text is the
\* envelope {code, message, status} of a code of the taxonomy.
C20_UniformEnvelope ==
  (tool.pc = "returned" /\ tool.result.isError) =>
     \E code \in ErrorTaxonomy, status \in 400..599 :
        tool.result.text =
          EnvelopeText(code, MessageOf(ToolError(code, status)), status)

\* ensureReady threw because the schema GET failed, and the execute tool
\* returned the bare message of that Error.
C20_BareMessage ==
  /\ tool.pc = "returned"
  /\ tool.result.isError
  /\ tool.result.text = SchemaError.message


\* A catalog is published once refreshInternal or bootstrapFromCache has set
\* operations and operationById.
Published == catalog.pc \in {"published", "bootstrapped"}

\* C21: in every catalog the schema service publishes, whether normalized
\* from a fetched schema or loaded from the cache file, no two operations
\* have the same operationId, and getOperation on the id of an operation of
\* the catalog returns that operation.
C21_DistinctIds ==
  Published =>
    /\ \A i, j \in DOMAIN catalog.operations :
         catalog.operations[i].operationId = catalog.operations[j].operationId => i = j
    /\ \A i \in DOMAIN catalog.operations :
         getPublishedOperation(catalog.operations[i].operationId) = catalog.operations[i]

\* Two links of one definition had the same method and path template and
\* were published as one operation, which a later process loaded from the
\* cache file.
C21_Witness ==
  /\ catalog.pc = "bootstrapped"
  /\ Len(catalog.rootSchema.definitions) = 1
  /\ Len(catalog.rootSchema.definitions[1].links.e) = 2
  /\ Len(catalog.operations) = 1

\* [a-z][a-z0-9_]*|p_[0-9][a-z0-9_]*|param_[0-9]+, matched against the whole
\* name.
WordChars == Range(LowerCase) \cup Range(DigitChars) \cup {"_"}

MatchesNamePattern(name) ==
  \/ /\ Len(name) >= 1
     /\ name[1] \in Range(LowerCase)
     /\ \A i \in 2..Len(name) : name[i] \in WordChars
  \/ /\ Len(name) >= 3
     /\ name[1] = "p" /\ name[2] = "_" /\ name[3] \in Range(DigitChars)
     /\ \A i \in 4..Len(name) : name[i] \in WordChars
  \/ /\ Len(name) >= 7
     /\ SubSeq(name, 1, 6) = <<"p", "a", "r", "a", "m", "_">>
     /\ \A i \in 7..Len(name) : name[i] \in Range(DigitChars)

\* The number of places at which part occurs in text.
Occurrences(part, text) ==
  Cardinality({ i \in 1..(Len(text) - Len(part) + 1) :
                  SubSeq(text, i, i + Len(part) - 1) = part })

PathSanitation(operation) ==
  /\ \A i \in DOMAIN operation.pathParams :
       /\ MatchesNamePattern(operation.pathParams[i].name)
       /\ Occurrences(Braced(operation.pathParams[i].name), operation.pathTemplate) = 1
  /\ \A i, j \in DOMAIN operation.pathParams :
       operation.pathParams[i].name = operation.pathParams[j].name => i = j

\* C22: for every operation of a normalized catalog and every path parameter
\* p of it, p.name matches [a-z][a-z0-9_]*|p_[0-9][a-z0-9_]*|param_[0-9]+, the
\* names are pairwise distinct, and pathTemplate contains {p.name} exactly
\* once, also when two placeholders of the href sanitize to the same name.
C22_PathSanitation ==
  Published => \A i \in DOMAIN catalog.operations : PathSanitation(catalog.operations[i])

\* Two plain placeholders of one href were sanitized to the same name: the
\* published template holds {name} twice and pathParams holds name once.
C22_RepeatedPlaceholder ==
  /\ catalog.pc = "published"
  /\ \E i \in DOMAIN catalog.operations :
       LET operation == catalog.operations[i]
       IN /\ \A j \in DOMAIN operation.pathParams :
               operation.pathParams[j].sourceRef = NoString
          /\ \E j \in DOMAIN operation.pathParams :
               Occurrences(Braced(operation.pathParams[j].name), operation.pathTemplate) = 2

\* The links of the fetched root schema that carry an href, over the
\* definitions whose links is an array.
FetchedLinks ==
  IF catalog.fetched = None THEN {}
  ELSE { link \in UNION { Range(definition.links.e) :
                          definition \in { d \in Range(catalog.fetched.definitions) :
                                             d.links.t = "array" } } :
           link.href # NoString }

GetOrHead == { <<"G", "E", "T">>, <<"H", "E", "A", "D">> }

\* The method the claim names: the link's method in upper case, GET when
\* there is none.
UppercasedMethod(link) ==
  IF link.method = NoString THEN <<"G", "E", "T">> ELSE toUpperCase(link.method)

\* The operations the link went into: those of its method and template.
OperationsOf(link) ==
  { i \in DOMAIN catalog.operations :
      /\ catalog.operations[i].method = UppercasedMethod(link)
      /\ catalog.operations[i].pathTemplate = normalizeHrefToPath(link.href).pathTemplate }

\* C23: every operation of a normalized catalog is mutating exactly when its
\* method is neither GET nor HEAD, the method being the link's method in
\* upper case, or GET for a link without a string method.
C23_Mutating ==
  catalog.pc = "published" =>
    /\ \A i \in DOMAIN catalog.operations :
         catalog.operations[i].isMutating <=> catalog.operations[i].method \notin GetOrHead
    /\ \A link \in FetchedLinks :
         /\ OperationsOf(link) # {}
         /\ \A i \in OperationsOf(link) :
              catalog.operations[i].isMutating <=> UppercasedMethod(link) \notin GetOrHead

\* A catalog made of a link whose method is "get" and a link whose method
\* is "Post": the first operation reads, the second mutates.
C23_Witness ==
  /\ catalog.pc = "published"
  /\ Len(catalog.operations) = 2
  /\ \E a, b \in FetchedLinks :
       /\ a.method = <<"g", "e", "t">>
       /\ b.method = <<"P", "o", "s", "t">>
       /\ \E i \in OperationsOf(a) : ~catalog.operations[i].isMutating
       /\ \E i \in OperationsOf(b) : catalog.operations[i].isMutating

\* Every link of the fetched root schema, in the order normalizeHerokuSchema
\* visits them.
FetchedLinkSeq ==
  JoinWith([i \in DOMAIN catalog.fetched.definitions |->
              IF catalog.fetched.definitions[i].links.t = "array"
                THEN catalog.fetched.definitions[i].links.e ELSE << >>],
           << >>)

\* The links that went into an operation, in that order.
LinksOf(operation) ==
  SelectSeq(FetchedLinkSeq,
            LAMBDA link :
              /\ link.href # NoString
              /\ UppercasedMethod(link) \o <<" ">> \o normalizeHrefToPath(link.href).pathTemplate
                   = operation.operationId)

\* "body.<r>" for each string r of the link schema's required array.
BodyStrings(link) ==
  IF link.schema = None \/ link.schema.required.t # "array" THEN << >>
  ELSE LET strings == SelectSeq(link.schema.required.e, LAMBDA r : r.t = "string")
       IN [i \in DOMAIN strings |-> <<"b", "o", "d", "y", ".">> \o strings[i].v]

\* The link's path parameter names, in the order of pathParams, then its
\* required body fields.
RequiredOf(link) ==
  LET pathParams == normalizeHrefToPath(link.href).pathParams
  IN [i \in DOMAIN pathParams |-> pathParams[i].name] \o BodyStrings(link)

FirstAt(item, items) == CHOOSE i \in DOMAIN items : items[i] = item /\ \A j \in 1..(i - 1) : items[j] # item

\* result is the union of items in first-seen order, without duplicates.
IsFirstSeenUnion(result, items) ==
  /\ Range(result) = Range(items)
  /\ \A i, j \in DOMAIN result :
       i < j => /\ result[i] # result[j]
                /\ FirstAt(result[i], items) < FirstAt(result[j], items)

C24Contract(operation) ==
  LET links == LinksOf(operation)
  IN /\ links # << >>
     /\ IF Len(links) = 1
          THEN operation.requiredParams = RequiredOf(links[1])
          ELSE IsFirstSeenUnion(operation.requiredParams,
                                JoinWith([i \in DOMAIN links |-> RequiredOf(links[i])], << >>))

\* Where part first occurs in text.
FirstOccurrence(part, text) ==
  CHOOSE i \in 1..Len(text) :
    /\ SubSeq(text, i, i + Len(part) - 1) = part
    /\ \A j \in 1..(i - 1) : SubSeq(text, j, j + Len(part) - 1) # part

\* The path parameter names stand in requiredParams in the order in which
\* their placeholders stand in the template.
InTemplateOrder(operation) ==
  \A i, j \in DOMAIN operation.pathParams :
    LET a == operation.pathParams[i].name
        b == operation.pathParams[j].name
    IN FirstAt(a, operation.requiredParams) < FirstAt(b, operation.requiredParams)
         => FirstOccurrence(Braced(a), operation.pathTemplate)
              < FirstOccurrence(Braced(b), operation.pathTemplate)

\* C24 as claimed: requiredParams is the path parameter names in template
\* order, then "body.<r>" for each string r of the link schema's required
\* array; for links merged into one operation it is the union over the
\* links in first-seen order, without duplicates.
C24_TemplateOrderAsClaimed ==
  catalog.pc = "published" =>
    \A i \in DOMAIN catalog.operations :
      C24Contract(catalog.operations[i]) /\ InTemplateOrder(catalog.operations[i])

\* C24: requiredParams is the path parameter names in the order of
\* pathParams (the encoded references of the href in template order, then
\* its plain placeholders in template order), then "body.<r>" for each
\* string r of the link schema's required array; for links merged into one
\* operation it is the union over the links in first-seen order, without
\* duplicates.
C24_RequiredParams ==
  catalog.pc = "published" =>
    \A i \in DOMAIN catalog.operations : C24Contract(catalog.operations[i])

\* Two links with different required body fields and a path parameter were
\* merged into one operation.
C24_Witness ==
  /\ catalog.pc = "published"
  /\ \E i \in DOMAIN catalog.operations :
       LET links == LinksOf(catalog.operations[i])
       IN /\ Len(links) = 2
          /\ BodyStrings(links[1]) # << >>
          /\ BodyStrings(links[2]) = << >>
          /\ catalog.operations[i].pathParams # << >>
          /\ Len(catalog.operations[i].requiredParams) = 3

\* C25: search returns only indexed operations whose score is above 0, in
\* non-increasing order of score, at most min(max(limit, 1), 25) of them, 8
\* when no limit is given, and none for a query that is empty once trimmed.
C25_Search ==
  searchIndex.pc = "searched" =>
    LET results == searchIndex.results
        limit   == searchIndex.options.limit
        most    == IF limit = Undefined THEN 8 ELSE Min(Max(limit.v, 1), 25)
    IN /\ \A i \in DOMAIN results :
            /\ results[i].score > 0
            /\ \E j \in DOMAIN searchIndex.operations :
                 searchIndex.operations[j].operationId = results[i].operation_id
       /\ \A i, j \in DOMAIN results : i < j => results[i].score >= results[j].score
       /\ Len(results) <= most
       /\ Trim(searchIndex.options.query) = << >> => results = << >>

\* More than 25 operations score above 0, with different scores, for a
\* search whose limit is above 25: 25 are returned.
C25_Witness ==
  /\ searchIndex.pc = "searched"
  /\ searchIndex.options.limit # Undefined
  /\ searchIndex.options.limit.v > 25
  /\ Len(searchIndex.operations) > 25
  /\ Len(searchIndex.results) = 25
  /\ searchIndex.results[1].score > searchIndex.results[25].score

\* The call in progress is one for which the claim has the cache bypassed:
\* the TTL is 0, or the operation is mutating or not a GET or HEAD.
BypassCase ==
  /\ InCall
  /\ CallOperation # None
  /\ \/ readCacheTtlMs = 0
     \/ CallOperation.isMutating
     \/ CallOperation.method \notin {"GET", "HEAD"}

\* The call passed validation, the write gate and the credential.
PassedGates ==
  /\ call.vended
  /\ call.pc \in {"fetch", "sleep", "done"}
  /\ call.outcome # ToolError("AUTH_REQUIRED", 401)

C26_State ==
  /\ BypassCase =>
       /\ call.cacheKey = << >>
       /\ (call.pc = "done" /\ call.outcome.kind = "ok" /\ ~call.input.dry_run)
            => \A i \in DOMAIN call.outcome.result.warnings :
                 call.outcome.result.warnings[i] # "served_from_read_cache"
       /\ (~call.input.dry_run /\ PassedGates) => call.sent >= 1
  /\ readCacheTtlMs = 0 => DOMAIN readCache = {}
  /\ \A k \in DOMAIN readCache : readCache[k].response.request.method \in {"GET", "HEAD"}

\* No step taken while such a call is in progress changes the read cache.
C26_Step == BypassCase => readCache' = readCache

\* C26: when the read-cache TTL is 0, or the operation is mutating or its
\* method is not GET or HEAD, the call has no cache key, its result is not
\* served from the cache, the cache is not changed while it runs, and the
\* call, if it is not a dry run and passes the gates, sends an upstream
\* request.
C26_Bypass == []C26_State /\ [][C26_Step]_vars

\* With the cache on and holding an entry, a confirmed write went upstream
\* and came back with its own response.
C26_Witness ==
  /\ readCacheTtlMs > 0
  /\ DOMAIN readCache # {}
  /\ MutatingCall
  /\ call.pc = "done"
  /\ call.outcome.kind = "ok"
  /\ ~call.input.dry_run
  /\ call.sent = 1

NotModified == CHOOSE response \in SchemaResponses : response.status = 304

\* The 304 of a refresh that was not forced: with a catalog in memory the
\* catalog, the index by id, the root schema and the etag stay and the run
\* goes on to the documentation; without one the run turns forced and
\* stands before its GET again, nothing sent yet.
C27_NotModifiedStep ==
  \A run \in 1..MaxRuns :
    (SchemaRespond(run, NotModified) /\ ~schemaService.runs[run].force) =>
       /\ schemaService'.operations = schemaService.operations
       /\ schemaService'.operationById = schemaService.operationById
       /\ schemaService'.rootSchema = schemaService.rootSchema
       /\ schemaService'.etag = schemaService.etag
       /\ run \in DOMAIN schemaService'.runs
       /\ IF schemaService.operations # {}
            THEN /\ schemaService'.runs[run].pc = "docs"
                 /\ ~schemaService'.runs[run].catalogChanged
            ELSE /\ schemaService'.runs[run].pc = "bootstrap"
                 /\ schemaService'.runs[run].force
                 /\ schemaService'.fetches = schemaService.fetches

\* The GET of a forced run carries no If-None-Match.
C27_ForcedGetStep ==
  \A run \in 1..MaxRuns :
    (SendSchemaGet(run) /\ schemaService.runs[run].force) =>
       ~schemaService'.runs[run].conditional

\* C27: a refresh that was not forced and is answered 304 while the catalog
\* in memory is not empty leaves the catalog, the operation-by-id index and
\* the root schema as they were; with an empty catalog it fetches again
\* forced, and a forced GET has no If-None-Match.
C27_NotModified == [][C27_NotModifiedStep /\ C27_ForcedGetStep]_vars

\* The interval timer's refresh, started without force under a kept etag,
\* was answered 304 with no catalog in memory: its second GET is in flight,
\* forced and without If-None-Match.
C27_Witness ==
  /\ schemaService.refreshInFlight # NoRun
  /\ schemaService.operations = {}
  /\ schemaService.etag # Undefined
  /\ LET run == schemaService.runs[schemaService.refreshInFlight]
     IN /\ run.pc = "schema"
        /\ run.force
        /\ ~run.conditional
  /\ \E id \in DOMAIN schemaService.callers :
        /\ schemaService.callers[id].who = "ticker"
        /\ ~schemaService.callers[id].joined
        /\ schemaService.callers[id].run = schemaService.refreshInFlight

\* The refresh that the schema endpoint answers with a status that is
\* neither OK nor 304 ends there: the run is gone and its waiting tool calls
\* have failed, and the catalog, the index by id, the root schema, the etag,
\* the documentation context and the cache file are as they were.
C28_FailedStep ==
  \A run \in 1..MaxRuns :
    \A response \in {r \in SchemaResponses : r.status \notin {200, 304}} :
      SchemaRespond(run, response) =>
         /\ schemaService'.operations = schemaService.operations
         /\ schemaService'.operationById = schemaService.operationById
         /\ schemaService'.rootSchema = schemaService.rootSchema
         /\ schemaService'.etag = schemaService.etag
         /\ schemaService'.docsContext = schemaService.docsContext
         /\ schemaService'.docsEtag = schemaService.docsEtag
         /\ schemaService'.cacheFile = schemaService.cacheFile
         /\ run \notin DOMAIN schemaService'.runs
         /\ \A id \in DOMAIN schemaService'.callers :
               schemaService.callers[id].run = run =>
                 schemaService'.callers[id].pc = "failed"

\* C28: when the schema GET is answered with a status that is neither OK nor
\* 304, the refresh fails and the catalog, the operation-by-id index, the
\* root schema and the etag are unchanged, the documentation context is not
\* refreshed and nothing is persisted.
C28_FailedRefresh == [][C28_FailedStep]_vars

\* A tool call's refresh failed on the status of the schema GET: no etag was
\* ever stored, so no answer of the endpoint was a 200.
C28_Witness ==
  /\ schemaService.fetches >= 1
  /\ schemaService.etag = Undefined
  /\ schemaService.refreshInFlight = NoRun
  /\ \E id \in DOMAIN schemaService.callers :
        schemaService.callers[id].pc = "failed"

VendUser == oauth.vend.userId

\* The token endpoint grants the refresh: the record to be stored carries
\* the answer's refresh token, a new one, when it has one, and the stored
\* record's when it has none.
C29_GrantStep ==
  \A response \in {r \in TokenEndpointResponses : r.ok} :
    refreshAccessToken(response) =>
       /\ oauth.tokenStore[VendUser].refreshToken # None
       /\ oauth'.vend.refreshed.refreshToken =
            IF response.refresh_token
              THEN RefreshToken(oauth'.grants)
              ELSE oauth.tokenStore[VendUser].refreshToken
       /\ response.refresh_token =>
            oauth'.vend.refreshed.refreshToken # oauth.tokenStore[VendUser].refreshToken

\* tokenStore.set persists that record for the user.
C29_StoreStep ==
  StoreRefreshed =>
     /\ oauth'.tokenStore[VendUser] = oauth.vend.refreshed
     /\ oauth'.tokenStore[VendUser].refreshToken # None

\* C29: after a refresh whose answer has no refresh_token the record stored
\* for the user still carries the refresh token it had, so that the next
\* expiry can be refreshed again; an answer with a refresh_token puts the new
\* one in its place.
C29_RefreshTokenKept == [][C29_GrantStep /\ C29_StoreStep]_vars

\* A second refresh is under way with the refresh token of the first record:
\* the first refresh's answer carried none, and the record it stored kept it.
C29_Witness ==
  /\ oauth.vend.pc = "refresh"
  /\ oauth.grants >= 1
  /\ oauth.tokenStore[VendUser].accessToken = AccessToken(oauth.grants)
  /\ oauth.tokenStore[VendUser].refreshToken = RefreshToken(0)
  /\ oauth.vend.record = oauth.tokenStore[VendUser]

\* The file is read at most once.
C30_State == store.reads <= 1

\* Once the store is loaded no call reads the file and none assigns the map
\* from a file it read.
C30_Step ==
  store.loaded =>
     /\ store'.reads = store.reads
     /\ \A id \in 1..MaxStoreCalls : ~StoreLoaded(id)

WritesFor(userId) ==
  { id \in DOMAIN store.calls :
      store.calls[id].userId = userId /\ store.calls[id].op \in {"set", "delete"} }

PublishedAccepts(operationId, body) ==
  Validates(CompiledSchema(Compile(getOperation(operationId).requestSchema,
                                   getRootSchema.definitions)),
            OrElse(body, EmptyObj))

\* C32: body validation uses the request schema currently published: an
\* execute call on an operation with a request schema ends in VALIDATION_ERROR
\* exactly when the published schema, with the published definitions, rejects
\* the body, also after a refresh has replaced the schema or the definitions.
C32_PublishedSchema ==
  [][ \A input \in ValidatorRequests :
        ( /\ Begin(input, <<"u1">>)
          /\ getOperation(input.operation_id).requestSchema # None )
        => ( (call'.outcome = ToolError("VALIDATION_ERROR", 400))
             <=> ~PublishedAccepts(input.operation_id, input.body) ) ]_vars

\* A dry run of "POST /apps" has succeeded with a body that the published
\* schema rejects: the validator compiled before the refresh was used.
C32_StaleValidator ==
  /\ catalog.pc = "replaced"
  /\ call.pc = "done"
  /\ call.input.operation_id = <<"POST", " ", "/apps">>
  /\ call.outcome.kind = "ok"
  /\ ~PublishedAccepts(call.input.operation_id, call.input.body)
  /\ validatorCache[call.input.operation_id]
       # Compile(getOperation(call.input.operation_id).requestSchema,
                 getRootSchema.definitions)

\* The operations of the schema version an etag names, as the schema
\* endpoint's answers pair them.
OperationsUnder(etag) ==
  IF etag = Str("e1") THEN {"a"}
  ELSE IF etag = Str("e2") THEN {"a", "b"}
  ELSE {}

\* C33: whenever no refresh is in progress, the stored etag identifies the
\* schema response the in-memory catalog was built from (or the etag loaded
\* with it from the cache file); a refresh that fails on the body of an OK
\* response does not advance the etag.
C33_EtagIdentifiesCatalog ==
  schemaService.refreshInFlight = NoRun
    => schemaService.operations = OperationsUnder(schemaService.etag)

\* No refresh is in progress, the catalog is the one of version e1 and the
\* stored etag is e2, taken from a response whose body did not parse.
C33_AdvancedEtag ==
  /\ schemaService.refreshInFlight = NoRun
  /\ schemaService.main = "serving"
  /\ schemaService.operations = {"a"}
  /\ schemaService.etag = Str("e2")

\* The schema endpoint answers a run with a catalog: the refresh publishes.
Publishes ==
  \E run \in DOMAIN schemaService.runs, response \in SchemaResponses :
     /\ response.status = 200
     /\ response.json
     /\ SchemaRespond(run, response)

C34_Step ==
  ( /\ schemaService.main = "serving"
    /\ \/ schemaService'.operations # schemaService.operations
       \/ schemaService'.operationById # schemaService.operationById
       \/ schemaService'.rootSchema # schemaService.rootSchema )
  => Publishes

C35_AtMostLimit == Cardinality(DOMAIN readCache) <= ReadCacheLimit

\* C35: after any sequence of execute calls the read cache holds at most
\* 1,001 entries: pruneReadCache brings it to at most 1,000 and the insertion
\* that follows adds at most one.
C35_AtMostLimitPlusOne == Cardinality(DOMAIN readCache) <= ReadCacheLimit + 1

\* The cache holds 1,001 entries after an eviction: both later callers are
\* cached and one of the thousand earlier entries is gone.
C35_Witness ==
  /\ Cardinality(DOMAIN readCache) = ReadCacheLimit + 1
  /\ \A userId \in UserIds : \E key \in DOMAIN readCache : readCache[key].owner = userId
  /\ \E i \in 1..ReadCacheLimit : FilledKey(i) \notin DOMAIN readCache

\* Two vending calls overlap: one had not returned when the other read the
\* record.
Overlap(a, b) == a \in oauth.vends[b].inflight \/ b \in oauth.vends[a].inflight

\* Calls a and b found the same record expired and each sent a refresh_token
\* request with its refresh token.
BothRefresh(a, b) ==
  /\ a # b
  /\ Overlap(a, b)
  /\ oauth.vends[a].vend.userId = oauth.vends[b].vend.userId
  /\ oauth.vends[a].vend.record = oauth.vends[b].vend.record
  /\ oauth.vends[a].vend.calls = 1
  /\ oauth.vends[b].vend.calls = 1

\* C36: for one user, concurrent vending calls that find the same expired
\* record send at most one refresh_token request: no refresh token is
\* presented twice.
C36_OneRefreshRequest ==
  \A a, b \in DOMAIN oauth.vends : ~BothRefresh(a, b)

\* Two overlapping calls have presented the same refresh token, and the
\* token endpoint has answered both.
C36_PresentedTwice ==
  \E a, b \in DOMAIN oauth.vends :
     /\ BothRefresh(a, b)
     /\ oauth.vends[a].vend.pc = "done"
     /\ oauth.vends[b].vend.pc = "done"
     /\ oauth.vends[a].vend.record.refreshToken = RefreshToken(0)

\* getAuthStatus on the record tokenStore.get returned (part_003 lines
\* 115-130): authenticated whenever there is a record.
getAuthStatus(record) == [authenticated |-> record # None]

\* execute lines 201-208: AUTH_REQUIRED exactly when deps.getAccessToken
\* resolves to null.
AuthRequired(result) == result = Null

\* C37: auth_status and execute agree: on the record both read from an
\* unchanged token store, execute fails with AUTH_REQUIRED exactly when
\* auth_status reports authenticated = false.
C37_Agreement ==
  oauth.vend.pc = "done"
    => (getAuthStatus(oauth.vend.record).authenticated
          <=> ~AuthRequired(oauth.vend.result))

\* The store holds an expired record without a refresh token, unchanged
\* since the call read it: auth_status reports authenticated = true and the
\* vending call has returned null.
C37_AuthenticatedButRequired ==
  /\ oauth.vend.pc = "done"
  /\ oauth.vend.userId \in DOMAIN oauth.tokenStore
  /\ oauth.tokenStore[oauth.vend.userId] = oauth.vend.record
  /\ getAuthStatus(oauth.tokenStore[oauth.vend.userId]).authenticated
  /\ AuthRequired(oauth.vend.result)

\* No refresh has sent more than two schema GETs.
AtMostTwoGets ==
  \A run \in DOMAIN schemaService.runs : schemaService.runs[run].gets <= 2

\* A refresh that has begun settles.
RefreshTerminates ==
  \A run \in 1..MaxRuns :
     (run \in DOMAIN schemaService.runs) ~> (run \notin DOMAIN schemaService.runs)

Settling == DOMAIN schemaService.runs \ DOMAIN schemaService'.runs

\* The callers that waited for a run and are still there once it has
\* settled: the tool calls (refreshCatalog's callers return at once).
Waited(run) ==
  { id \in Waiting(schemaService) \cap DOMAIN schemaService'.callers :
      schemaService.callers[id].run = run }

C39_State ==
  /\ schemaService.refreshInFlight # NoRun
       => schemaService.refreshInFlight \in DOMAIN schemaService.runs
  /\ schemaService.runs # << >> => schemaService.refreshInFlight # NoRun

C39_SettleStep ==
  \A run \in Settling :
     /\ schemaService'.refreshInFlight = NoRun
     /\ \A id \in Waited(run) :
          /\ schemaService'.callers[id].pc =
               IF schemaService.runs[run].pc = "docs" THEN "ready" ELSE "failed"
          /\ schemaService'.callers[id].via =
               [conditional |-> schemaService.runs[run].conditional,
                force |-> schemaService.runs[run].force]

C39_NextStep ==
  \A id \in Waiting(schemaService') \ Waiting(schemaService) :
     schemaService.refreshInFlight = NoRun =>
       /\ schemaService'.nextRun = schemaService.nextRun + 1
       /\ schemaService'.refreshInFlight = schemaService'.nextRun
       /\ schemaService'.callers[id].run = schemaService'.nextRun
       /\ ~schemaService'.callers[id].joined
       /\ schemaService'.runs[schemaService'.nextRun].gets = 0
       /\ schemaService'.runs[schemaService'.nextRun].pc = "bootstrap"

\* C39: the single-flight slot is released when a refresh completes, with
\* success or with an error: no refresh is in flight unless a run is under
\* way; the next refresh call starts a run of its own with a schema fetch
\* of its own; and every caller that waited for a run, the one that started
\* it and those that joined, returns with that run's outcome.
C39_SlotReleased == []C39_State /\ [][C39_SettleStep /\ C39_NextStep]_vars

\* A refresh that a search call started and another joined has failed: both
\* calls have the error, no refresh is in flight, and it was not the first
\* run.
C39_Witness ==
  /\ schemaService.refreshInFlight = NoRun
  /\ schemaService.runs = << >>
  /\ schemaService.nextRun >= 2
  /\ \E i, j \in DOMAIN schemaService.callers :
        /\ schemaService.callers[i].pc = "failed"
        /\ schemaService.callers[j].pc = "failed"
        /\ ~schemaService.callers[i].joined
        /\ schemaService.callers[j].joined
        /\ schemaService.callers[i].run = schemaService.callers[j].run

\* The results of a callback whose code exchange failed.
ExchangeFailures ==
  {"Heroku OAuth token exchange failed",
   "HEROKU_OAUTH_CLIENT_ID and HEROKU_OAUTH_CLIENT_SECRET are required"}

FailedExchange(i) ==
  /\ oauth.log[i].result = "exchanging"
  /\ oauth'.log[i].result \in ExchangeFailures

C40_Step ==
  \A i \in 1..Len(oauth.log) :
     FailedExchange(i) =>
       /\ oauth'.tokenStore = oauth.tokenStore
       /\ oauth.log[i].state \notin DOMAIN oauth'.stateStore

C40_State ==
  \A i \in 1..Len(oauth.log) :
     oauth.log[i].result \in ExchangeFailures =>
       /\ oauth.log[i].state \notin DOMAIN oauth.stateStore
       /\ \A j \in (i + 1)..Len(oauth.log) :
             oauth.log[j].state = oauth.log[i].state
               => oauth.log[j].result = "Invalid or expired OAuth state"

\* C40: a callback whose code exchange fails, the token endpoint answering
\* non-OK or the client credentials missing, stores no token record: the
\* token store is as it was for every user, and the state is consumed, so a
\* later callback with the same state is refused.
C40_FailedExchange == []C40_State /\ [][C40_Step]_vars

\* A callback's code exchange has failed, the same state has been presented
\* again and refused, and the token store holds nothing.
C40_Witness ==
  /\ oauth.tokenStore = << >>
  /\ \E i, j \in 1..Len(oauth.log) :
        /\ i < j
        /\ oauth.log[i].result \in ExchangeFailures
        /\ oauth.log[j].state = oauth.log[i].state
        /\ oauth.log[j].result = "Invalid or expired OAuth state"

(***************************************************************************)
(* Specifications                                                          *)
(***************************************************************************)
\* The write gate: one caller, the cache off, every request shape.
Init ==
  /\ allowWrites \in BOOLEAN
  /\ maxRetries \in 0..MaxRetriesCfg
  /\ readCacheTtlMs = 0
  /\ executeMaxBodyBytes = EXECUTE_MAX_BODY_BYTES
  /\ executeBodyPreviewChars = EXECUTE_BODY_PREVIEW_CHARS
  /\ now = 0
  /\ vendable = {}
  /\ readCache = << >>
  /\ validatorCache = << >>
  /\ call = IdleCall
  /\ prev = NoPrev
  /\ minted = None
  /\ replayed = None
  /\ oauth = OAuthIdle
  /\ schemaService = SchemaIdle
  /\ tool = IdleTool
  /\ catalog = CatalogIdle
  /\ searchIndex = SearchIdle
  /\ store = StoreIdle

Next ==
  \/ BeginGate
  \/ Vend
  \/ \E status \in Statuses : Respond(status)
  \/ \E errorName \in FetchErrors : Fail(errorName)
  \/ Retry
  \/ Return
  \/ \E userId \in GateCallers : Grant(userId)
  \/ \E userId \in GateCallers : Revoke(userId)

Spec == Init /\ [][Next]_vars

\* Reads: two callers, the clock, the read cache.
InitRead ==
  /\ allowWrites = FALSE
  /\ maxRetries \in {0, MaxRetriesCfg}
  /\ readCacheTtlMs \in {0, MaxTtl}
  /\ executeMaxBodyBytes = EXECUTE_MAX_BODY_BYTES
  /\ executeBodyPreviewChars = EXECUTE_BODY_PREVIEW_CHARS
  /\ now = 0
  /\ vendable = {}
  /\ readCache = << >>
  /\ validatorCache = << >>
  /\ call = IdleCall
  /\ prev = NoPrev
  /\ minted = None
  /\ replayed = None
  /\ oauth = OAuthIdle
  /\ schemaService = SchemaIdle
  /\ tool = IdleTool
  /\ catalog = CatalogIdle
  /\ searchIndex = SearchIdle
  /\ store = StoreIdle

NextRead ==
  \/ BeginRead
  \/ Vend
  \/ \E status \in ReadStatuses : Respond(status)
  \/ Fail("TypeError")
  \/ Retry
  \/ Return
  \/ Tick
  \/ \E userId \in UserIds : Grant(userId)
  \/ \E userId \in UserIds : Revoke(userId)

SpecRead == InitRead /\ [][NextRead]_vars

\* The confirmation token: a dry run of any mutating request, replayed with
\* any other request, writes allowed.
InitToken ==
  /\ allowWrites = TRUE
  /\ maxRetries = 0
  /\ readCacheTtlMs = 0
  /\ executeMaxBodyBytes = EXECUTE_MAX_BODY_BYTES
  /\ executeBodyPreviewChars = EXECUTE_BODY_PREVIEW_CHARS
  /\ now = 0
  /\ vendable = {}
  /\ readCache = << >>
  /\ validatorCache = << >>
  /\ call = IdleCall
  /\ prev = NoPrev
  /\ minted = None
  /\ replayed = None
  /\ oauth = OAuthIdle
  /\ schemaService = SchemaIdle
  /\ tool = IdleTool
  /\ catalog = CatalogIdle
  /\ searchIndex = SearchIdle
  /\ store = StoreIdle

NextToken ==
  \/ \E userId \in TokenUserIds, operation_id \in TokenOperationIds,
        path_params \in TokenPathParams, query_params \in TokenQueryParams,
        body \in TokenBodies :
       DryRun(ExecuteRequest(operation_id, path_params, query_params, body, TRUE, NoConfirm),
              userId)
  \/ \E userId \in TokenUserIds, operation_id \in TokenOperationIds,
        path_params \in TokenPathParams, query_params \in TokenQueryParams,
        body \in TokenBodies :
       Replay(ExecuteRequest(operation_id, path_params, query_params, body, FALSE,
                             minted.token),
              userId)

SpecToken == InitToken /\ [][NextToken]_vars

InitBody ==
  /\ allowWrites = FALSE
  /\ maxRetries = 0
  /\ readCacheTtlMs \in {0, 1}
  /\ executeMaxBodyBytes \in BodyByteLimits
  /\ executeBodyPreviewChars \in PreviewCharLimits
  /\ now = 0
  /\ vendable = { <<"u1">> }
  /\ readCache = << >>
  /\ validatorCache = << >>
  /\ call = IdleCall
  /\ prev = NoPrev
  /\ minted = None
  /\ replayed = None
  /\ oauth = OAuthIdle
  /\ schemaService = SchemaIdle
  /\ tool = IdleTool
  /\ catalog = CatalogIdle
  /\ searchIndex = SearchIdle
  /\ store = StoreIdle

NextBody ==
  \/ BeginBody
  \/ Vend
  \/ \E body \in UpstreamBodies, headers \in UpstreamHeaders :
       Deliver([body |-> body, headers |-> headers, status |-> 200])
  \/ Return

SpecBody == InitBody /\ [][NextBody]_vars

\* The OAuth callback: two states to issue, two callbacks, the purge.
InitCallback ==
  /\ allowWrites = FALSE
  /\ maxRetries = 0
  /\ readCacheTtlMs = 0
  /\ executeMaxBodyBytes = EXECUTE_MAX_BODY_BYTES
  /\ executeBodyPreviewChars = EXECUTE_BODY_PREVIEW_CHARS
  /\ now = 0
  /\ vendable = {}
  /\ readCache = << >>
  /\ validatorCache = << >>
  /\ call = IdleCall
  /\ prev = NoPrev
  /\ minted = None
  /\ replayed = None
  /\ \E credentials \in BOOLEAN : oauth = [OAuthIdle EXCEPT !.credentials = credentials]
  /\ schemaService = SchemaIdle
  /\ tool = IdleTool
  /\ catalog = CatalogIdle
  /\ searchIndex = SearchIdle
  /\ store = StoreIdle

NextCallback ==
  \/ \E userId \in GateCallers : buildAuthorizationUrl(userId)
  \/ \E state \in PresentableStates : handleOAuthCallback(state)
  \/ \E i \in 1..MaxCallbacks, response \in CallbackResponses :
        exchangeAuthorizationCode(i, response)
  \/ purgeExpiredState
  \/ \E duration \in Durations : Advance(duration)

SpecCallback == InitCallback /\ [][NextCallback]_vars

\* Token vending: a stored record, the clock, the refresh grant.
InitVend ==
  /\ allowWrites = FALSE
  /\ maxRetries = 0
  /\ readCacheTtlMs = 0
  /\ executeMaxBodyBytes = EXECUTE_MAX_BODY_BYTES
  /\ executeBodyPreviewChars = EXECUTE_BODY_PREVIEW_CHARS
  /\ now = 0
  /\ vendable = {}
  /\ readCache = << >>
  /\ validatorCache = << >>
  /\ call = IdleCall
  /\ prev = NoPrev
  /\ minted = None
  /\ replayed = None
  /\ \E tokenStore \in {<< >>} \cup {MapSet(<< >>, <<"u1">>, r) : r \in StoredRecords} :
        oauth = [OAuthIdle EXCEPT !.tokenStore = tokenStore]
  /\ schemaService = SchemaIdle
  /\ tool = IdleTool
  /\ catalog = CatalogIdle
  /\ searchIndex = SearchIdle
  /\ store = StoreIdle

NextVend ==
  \/ getValidAccessToken(<<"u1">>)
  \/ \E response \in TokenEndpointResponses : refreshAccessToken(response)
  \/ StoreRefreshed
  \/ VendReturn
  \/ \E duration \in Durations : Advance(duration)

SpecVend == InitVend /\ [][NextVend]_vars

\* The schema service: the cold boot, the ticker, search tool calls.
InitSchema ==
  /\ allowWrites = FALSE
  /\ maxRetries = 0
  /\ readCacheTtlMs = 0
  /\ executeMaxBodyBytes = EXECUTE_MAX_BODY_BYTES
  /\ executeBodyPreviewChars = EXECUTE_BODY_PREVIEW_CHARS
  /\ now = 0
  /\ vendable = {}
  /\ readCache = << >>
  /\ validatorCache = << >>
  /\ call = IdleCall
  /\ prev = NoPrev
  /\ minted = None
  /\ replayed = None
  /\ oauth = OAuthIdle
  /\ schemaService = SchemaIdle
  /\ tool = IdleTool
  /\ catalog = CatalogIdle
  /\ searchIndex = SearchIdle
  /\ store = StoreIdle

NextSchema ==
  \/ \E cache \in CacheFiles : Boot(cache)
  \/ Ticker
  \/ SearchCall
  \/ \E run \in 1..MaxRuns : SendSchemaGet(run)
  \/ \E run \in 1..MaxRuns, response \in SchemaResponses :
        SchemaRespond(run, response)
  \/ \E run \in 1..MaxRuns, docs \in DocsResponses : FinishRun(run, docs)
  \/ \E id \in 1..MaxCallers : SearchReturn(id)
  \/ \E id \in 1..MaxCallers : SearchFail(id)

SpecSchema == InitSchema /\ [][NextSchema]_vars

\* The execute tool: the cold boot, the handler, the executor behind it.
InitTool ==
  /\ allowWrites \in BOOLEAN
  /\ maxRetries = 0
  /\ readCacheTtlMs = 0
  /\ executeMaxBodyBytes = EXECUTE_MAX_BODY_BYTES
  /\ executeBodyPreviewChars = EXECUTE_BODY_PREVIEW_CHARS
  /\ now = 0
  /\ vendable \in {{}, {<<"u1">>}}
  /\ readCache = << >>
  /\ validatorCache = << >>
  /\ call = IdleCall
  /\ prev = NoPrev
  /\ minted = None
  /\ replayed = None
  /\ oauth = OAuthIdle
  /\ schemaService = SchemaIdle
  /\ tool = IdleTool
  /\ catalog = CatalogIdle
  /\ searchIndex = SearchIdle
  /\ store = StoreIdle

NextTool ==
  \/ \E cache \in CacheFiles : Boot(cache)
  \/ \E run \in 1..MaxRuns : SendSchemaGet(run)
  \/ \E run \in 1..MaxRuns, response \in SchemaResponses :
        SchemaRespond(run, response)
  \/ \E run \in 1..MaxRuns, docs \in DocsResponses : FinishRun(run, docs)
  \/ ExecuteCall
  \/ EnsureReadyDone
  \/ ToolExecute
  \/ Vend
  \/ VendThrows
  \/ \E status \in ReadStatuses : Respond(status)
  \/ \E errorName \in FetchErrors : Fail(errorName)
  \/ ToolReturn
  \/ ToolDone

SpecTool == InitTool /\ [][NextTool]_vars


\* The normalizer scenario: a root schema is fetched, normalized and
\* published, and a later process starts from the cache file.
InitNormalize ==
  /\ allowWrites = FALSE
  /\ maxRetries = 0
  /\ readCacheTtlMs = 0
  /\ executeMaxBodyBytes = EXECUTE_MAX_BODY_BYTES
  /\ executeBodyPreviewChars = EXECUTE_BODY_PREVIEW_CHARS
  /\ now = 0
  /\ vendable = {}
  /\ readCache = << >>
  /\ validatorCache = << >>
  /\ call = IdleCall
  /\ prev = NoPrev
  /\ minted = None
  /\ replayed = None
  /\ oauth = OAuthIdle
  /\ schemaService = SchemaIdle
  /\ tool = IdleTool
  /\ catalog \in { [CatalogIdle EXCEPT !.fetched = rootSchema, !.pc = "fetched"] :
                     rootSchema \in RootSchemas }
  /\ searchIndex = SearchIdle
  /\ store = StoreIdle

NextNormalize ==
  \/ PublishFetched
  \/ bootstrapFromCache

SpecNormalize == InitNormalize /\ [][NextNormalize]_vars

\* The search scenario: a catalog is indexed and searched once.
InitSearch ==
  /\ allowWrites = FALSE
  /\ maxRetries = 0
  /\ readCacheTtlMs = 0
  /\ executeMaxBodyBytes = EXECUTE_MAX_BODY_BYTES
  /\ executeBodyPreviewChars = EXECUTE_BODY_PREVIEW_CHARS
  /\ now = 0
  /\ vendable = {}
  /\ readCache = << >>
  /\ validatorCache = << >>
  /\ call = IdleCall
  /\ prev = NoPrev
  /\ minted = None
  /\ replayed = None
  /\ oauth = OAuthIdle
  /\ schemaService = SchemaIdle
  /\ tool = IdleTool
  /\ catalog = CatalogIdle
  /\ searchIndex \in
       { [SearchIdle EXCEPT !.operations = operations, !.docsContext = docsContext,
                            !.options = [limit |-> limit, query |-> query,
                                         resourceFilter |-> resourceFilter],
                            !.pc = "loaded"] :
           operations \in {AppCatalog, NumberedCatalog}, docsContext \in DocsContexts,
           limit \in SearchLimits, query \in SearchQueries,
           resourceFilter \in ResourceFilters }
  /\ store = StoreIdle

NextSearch ==
  \/ SetOperations
  \/ Search

SpecSearch == InitSearch /\ [][NextSearch]_vars

\* Bypass: reads and confirmed writes by one caller, the read cache on or
\* off.
InitBypass ==
  /\ allowWrites \in BOOLEAN
  /\ maxRetries = 0
  /\ readCacheTtlMs \in {0, MaxTtl}
  /\ executeMaxBodyBytes = EXECUTE_MAX_BODY_BYTES
  /\ executeBodyPreviewChars = EXECUTE_BODY_PREVIEW_CHARS
  /\ now = 0
  /\ vendable = {}
  /\ readCache = << >>
  /\ validatorCache = << >>
  /\ call = IdleCall
  /\ prev = NoPrev
  /\ minted = None
  /\ replayed = None
  /\ oauth = OAuthIdle
  /\ schemaService = SchemaIdle
  /\ tool = IdleTool
  /\ catalog = CatalogIdle
  /\ searchIndex = SearchIdle
  /\ store = StoreIdle

NextBypass ==
  \/ BeginBypass
  \/ Vend
  \/ \E status \in {200, 404} : Respond(status)
  \/ Fail("TypeError")
  \/ Return
  \/ Tick
  \/ \E userId \in GateCallers : Grant(userId)
  \/ \E userId \in GateCallers : Revoke(userId)

SpecBypass == InitBypass /\ [][NextBypass]_vars

\* The token store: get, set and delete calls that overlap, the store file
\* absent or written by an earlier process.
InitStore ==
  /\ allowWrites = FALSE
  /\ maxRetries = 0
  /\ readCacheTtlMs = 0
  /\ executeMaxBodyBytes = EXECUTE_MAX_BODY_BYTES
  /\ executeBodyPreviewChars = EXECUTE_BODY_PREVIEW_CHARS
  /\ now = 0
  /\ vendable = {}
  /\ readCache = << >>
  /\ validatorCache = << >>
  /\ call = IdleCall
  /\ prev = NoPrev
  /\ minted = None
  /\ replayed = None
  /\ oauth = OAuthIdle
  /\ schemaService = SchemaIdle
  /\ tool = IdleTool
  /\ catalog = CatalogIdle
  /\ searchIndex = SearchIdle
  /\ \E file \in StoreFiles : store = [StoreIdle EXCEPT !.file = file]

NextStore ==
  \/ \E op \in {"get", "set", "delete"}, userId \in UserIds : StoreCall(op, userId)
  \/ \E id \in 1..MaxStoreCalls : StoreReadFile(id)
  \/ \E id \in 1..MaxStoreCalls : StoreLoaded(id)
  \/ \E id \in 1..MaxStoreCalls : StoreAct(id)
  \/ \E id \in 1..MaxStoreCalls : StoreWriteFile(id)
  \/ \E id \in 1..MaxStoreCalls : StoreWritten(id)

SpecStore == InitStore /\ [][NextStore]_vars

\* The validator scenario: dry runs before and after the schema service
\* publishes another catalog.
InitValidator ==
  /\ allowWrites = FALSE
  /\ maxRetries = 0
  /\ readCacheTtlMs = 0
  /\ executeMaxBodyBytes = EXECUTE_MAX_BODY_BYTES
  /\ executeBodyPreviewChars = EXECUTE_BODY_PREVIEW_CHARS
  /\ now = 0
  /\ vendable = {}
  /\ readCache = << >>
  /\ validatorCache = << >>
  /\ call = IdleCall
  /\ prev = NoPrev
  /\ minted = None
  /\ replayed = None
  /\ oauth = OAuthIdle
  /\ schemaService = SchemaIdle
  /\ tool = IdleTool
  /\ catalog = CatalogIdle
  /\ searchIndex = SearchIdle
  /\ store = StoreIdle

NextValidator ==
  \/ BeginValidated
  \/ Return
  \/ \E requestSchema \in PublishedSchemas, definitions \in PublishedDefinitions :
        Republish(requestSchema, definitions)

SpecValidator == InitValidator /\ [][NextValidator]_vars

\* The full read cache: the cache holds 999 or 1,000 live entries of earlier
\* callers when two more users read.
InitLimit ==
  /\ allowWrites = FALSE
  /\ maxRetries = 0
  /\ readCacheTtlMs = MaxTtl + 1
  /\ executeMaxBodyBytes = EXECUTE_MAX_BODY_BYTES
  /\ executeBodyPreviewChars = EXECUTE_BODY_PREVIEW_CHARS
  /\ now = 1
  /\ vendable = UserIds
  /\ \E n \in FilledSizes : readCache = FilledCache(n, readCacheTtlMs)
  /\ validatorCache = << >>
  /\ call = IdleCall
  /\ prev = NoPrev
  /\ minted = None
  /\ replayed = None
  /\ oauth = OAuthIdle
  /\ schemaService = SchemaIdle
  /\ tool = IdleTool
  /\ catalog = CatalogIdle
  /\ searchIndex = SearchIdle
  /\ store = StoreIdle

NextLimit ==
  \/ BeginRead
  \/ Vend
  \/ \E status \in {200, 204, 404} : Respond(status)
  \/ Return
  \/ Tick

SpecLimit == InitLimit /\ [][NextLimit]_vars

\* Vending calls that overlap: a stored record, the clock, two calls for the
\* same user.
InitVends ==
  /\ allowWrites = FALSE
  /\ maxRetries = 0
  /\ readCacheTtlMs = 0
  /\ executeMaxBodyBytes = EXECUTE_MAX_BODY_BYTES
  /\ executeBodyPreviewChars = EXECUTE_BODY_PREVIEW_CHARS
  /\ now = 0
  /\ vendable = {}
  /\ readCache = << >>
  /\ validatorCache = << >>
  /\ call = IdleCall
  /\ prev = NoPrev
  /\ minted = None
  /\ replayed = None
  /\ \E tokenStore \in {<< >>} \cup {MapSet(<< >>, <<"u1">>, r) : r \in StoredRecords} :
        oauth = [OAuthIdle EXCEPT !.tokenStore = tokenStore]
  /\ schemaService = SchemaIdle
  /\ tool = IdleTool
  /\ catalog = CatalogIdle
  /\ searchIndex = SearchIdle
  /\ store = StoreIdle

NextVends ==
  \/ \E id \in 1..MaxVends : VendCall(id, <<"u1">>)
  \/ \E id \in 1..MaxVends, response \in TokenEndpointResponses : VendAnswered(id, response)
  \/ \E id \in 1..MaxVends : VendStored(id)
  \/ \E duration \in Durations : Advance(duration)

SpecVends == InitVends /\ [][NextVends]_vars

\* The scheduling the code has: a refresh that can
\* send its GET sends it, and every fetch, of the schema and of the
\* documentation, is answered or fails.  Each of the three steps changes the
\* run's record, so fairness is stated on the runs.
FairSchema ==
  \A run \in 1..MaxRuns :
     /\ WF_(schemaService.runs)(SendSchemaGet(run))
     /\ WF_(schemaService.runs)(\E response \in SchemaResponses : SchemaRespond(run, response))
     /\ WF_(schemaService.runs)(\E docs \in DocsResponses : FinishRun(run, docs))

\* The refreshes of main: the startup's and the ticker's.
NextRefresh ==
  \/ \E cache \in CacheFiles : Boot(cache)
  \/ Ticker
  \/ \E run \in 1..MaxRuns : SendSchemaGet(run)
  \/ \E run \in 1..MaxRuns, response \in SchemaResponses :
        SchemaRespond(run, response)
  \/ \E run \in 1..MaxRuns, docs \in DocsResponses : FinishRun(run, docs)

SpecRefreshFair == InitSchema /\ [][NextRefresh]_vars /\ FairSchema

=============================================================================
